---- MODULE Spec2Model ----
(***************************************************************************)
(* Model of the self-healing RAG pipeline of src/lib/rag-system.ts         *)
(* (AutoFixRAGSystem, AutoFixRAGService), the shared service instance      *)
(* (shared-rag-service.ts) and the route handlers that drive them.         *)
(*                                                                         *)
(* Every awaited call to an external capability (vector store, embedding   *)
(* model, chat model) is one action; its outcome (return or raise, and the *)
(* returned documents) is chosen by the environment.  The code that runs   *)
(* between two awaits is part of the action of the earlier await.          *)
(***************************************************************************)
EXTENDS Integers, Sequences, FiniteSets, TLC

VARIABLES
  embedDim,          \* length of the vectors the embedding model returns
  collection,        \* the Qdrant collection of the deployment, or NoCollection
  sharedRAGService,  \* shared-rag-service.ts: the module-level instance exists
  vectorStore,       \* AutoFixRAGSystem.vectorStore is bound (not null)
  retrievalChain,    \* AutoFixRAGSystem.retrievalChain is built (not null)
  actualVectorSize,  \* AutoFixRAGSystem.actualVectorSize, Null when unset
  isInitialized,     \* AutoFixRAGService.isInitialized
  op,                \* the operation in progress or last completed
  pc,                \* the await the operation is suspended at
  stack,             \* continuations of the enclosing try blocks / callers
  arg,               \* the input of the operation
  relevantDocs,      \* askQuestion / askQuestionStream: relevantDocs
  err,               \* the error being thrown, outermost message first
  log,               \* external calls issued by the operation, in order
  pre,               \* state at the start of the operation
  icPre,             \* the collection when initializeCollection was entered
  result             \* value returned by the last completed operation

vars == <<embedDim, collection, sharedRAGService, vectorStore, retrievalChain,
          actualVectorSize, isInitialized, op, pc, stack, arg, relevantDocs,
          err, log, pre, icPre, result>>

svcVars == <<vectorStore, retrievalChain, actualVectorSize, isInitialized>>

----------------------------------------------------------------------------
(* Bounds *)

MaxPoints == 2

(* Program constants *)

TopK == 5
DefaultDimensions == 768

Null == 0
NoCollection == [exists |-> FALSE]
NoPayload == "<no pageContent>"
EmptyContent == ""

Widths == {256, 768}
ChunkIds == {"c1", "c2"}
PointContents == ChunkIds \cup {NoPayload}

Min(a, b) == IF a < b THEN a ELSE b

(* Sequences of length at most n over S *)
SeqUpTo(S, n) == UNION {[1..k -> S] : k \in 0..n}

----------------------------------------------------------------------------
(* Error values: the chain of messages built by the nested               *)
(* `throw new Error(`...: ${error}`)` wrappers, outermost first.          *)

Wrap(msg, e) == <<msg>> \o e

StoreError == <<"store error">>
EmbedError == <<"embedding error">>
LlmError == <<"generation error">>

MsgUnhealthy == "Qdrant server is not accessible or healthy"
MsgInitFailed == "Failed to initialize collection"
MsgNoDocsProcessed == "No documents processed yet. Please upload and process a document first."
MsgNoDocsProcessedStream == "No documents processed yet."
MsgNoDocsFound == "No documents found in the collection. Please upload documents first."
MsgAllRetrievalFailed == "All retrieval methods failed"
MsgAnswerFailed == "Failed to answer question"
MsgQueryError == "Error querying document"
MsgStreamError == "Error streaming query"
MsgNoRelevant == "I couldn't find any relevant documents to answer your question. Please make sure documents have been uploaded and processed correctly."
MsgNoText == "No text content provided"
MsgProcessTextFailed == "Failed to process text"
MsgProcessFileError == "Error processing file"
MsgUnsupported == "Unsupported file type. Please upload PDF or TXT files."
MsgNoPdfText == "No text content found in PDF"
MsgPdfFailed == "Failed to process PDF"
MsgPdfParse == "pdf parse error"

----------------------------------------------------------------------------
(* The external call log *)

Call(name, ok, ret) == [call |-> name, ok |-> ok, ret |-> ret]

Logged(name) == \E i \in 1..Len(log) : log[i].call = name
LoggedOk(name) == \E i \in 1..Len(log) : log[i].call = name /\ log[i].ok
LoggedFail(name) == \E i \in 1..Len(log) : log[i].call = name /\ ~log[i].ok
CountCalls(name) == Cardinality({i \in 1..Len(log) : log[i].call = name})

(* afterInitialize: an initialize() that follows an initialize() that     *)
(* returned; afterHealing: a stats call that follows an initialize() that *)
(* returned and had found the collection with another width               *)
Snapshot(name) ==
            [collection |-> collection, vectorStore |-> vectorStore,
             retrievalChain |-> retrievalChain,
             actualVectorSize |-> actualVectorSize,
             isInitialized |-> isInitialized,
             sharedRAGService |-> sharedRAGService,
             afterInitialize |-> (/\ name = "initialize"
                                  /\ op = "initialize"
                                  /\ result.kind = "void"),
             afterHealing |-> (/\ name = "stats"
                               /\ op = "initialize"
                               /\ result.kind = "void"
                               /\ icPre.exists
                               /\ icPre.size # embedDim)]

----------------------------------------------------------------------------
(* Initial state: the process has just started, no service instance has   *)
(* been constructed; the store may hold a collection left by an earlier   *)
(* process (any width, possibly with points).                             *)

InitCollections ==
  {NoCollection} \cup
  {[exists |-> TRUE, size |-> w, points |-> p] :
      w \in Widths, p \in {<<>>, <<NoPayload>>}}

Init ==
  /\ embedDim \in Widths
  /\ collection \in InitCollections
  /\ sharedRAGService = FALSE
  /\ vectorStore = FALSE
  /\ retrievalChain = FALSE
  /\ actualVectorSize = Null
  /\ isInitialized = FALSE
  /\ op = "none"
  /\ pc = "idle"
  /\ stack = <<>>
  /\ arg = "none"
  /\ relevantDocs = <<>>
  /\ err = <<>>
  /\ log = <<>>
  /\ pre = [afterInitialize |-> FALSE, afterHealing |-> FALSE]
  /\ icPre = NoCollection
  /\ result = [kind |-> "none"]

----------------------------------------------------------------------------
(* Control transfer.  A frame names where the caller continues when the   *)
(* callee returns (ok) and where its catch block is (fail).               *)

Frame(okLabel, failLabel) == [ok |-> okLabel, fail |-> failLabel]

Goto(label) == /\ pc' = label
               /\ UNCHANGED <<stack, err>>

Return == /\ pc' = Head(stack).ok
          /\ stack' = Tail(stack)
          /\ UNCHANGED err

Throw(e) == /\ pc' = Head(stack).fail
            /\ stack' = Tail(stack)
            /\ err' = e

CallInto(label, frame) == /\ pc' = label
                          /\ stack' = <<frame>> \o stack
                          /\ UNCHANGED err

(* A call of initializeCollection that continues at okLabel *)
CallInitializeCollection(okLabel, failLabel) ==
  /\ CallInto("ic_health", Frame(okLabel, failLabel))
  /\ icPre' = collection

Issue(name, ok) == log' = Append(log, Call(name, ok, <<>>))

(* A query the store answered with the points `ret` *)
IssueQuery(name, ret) == log' = Append(log, Call(name, TRUE, ret))

envVars == <<embedDim, sharedRAGService>>
reqVars == <<op, arg, pre, icPre, result>>

----------------------------------------------------------------------------
(* AutoFixRAGSystem.initializeCollection                                  *)

createCollectionWithDimensions_Default(dimensions) ==
  [exists |-> TRUE, size |-> DefaultDimensions, points |-> <<>>]

(* createCollectionWithDimensions: the collection the store holds after   *)
(* a successful createCollection                                          *)
createCollectionWithDimensions(dimensions) ==
  [exists |-> TRUE, size |-> dimensions, points |-> <<>>]

DimensionMismatch_Never(existingDimensions, actualDimensions) == FALSE
DimensionMismatch_Always(existingDimensions, actualDimensions) == TRUE

(* line 172: existingDimensions !== actualDimensions *)
DimensionMismatch(existingDimensions, actualDimensions) ==
  existingDimensions # actualDimensions

(* detectEmbeddingDimensions, lines 107-109: the cached width is reused *)
DimensionsCached == actualVectorSize # Null

(* lines 198-203: bind the vector store and return *)
BindVectorStore ==
  /\ vectorStore' = TRUE
  /\ Return

InitFailed(cause) == Throw(Wrap(MsgInitFailed, cause))

(* line 142: testQdrantConnection, then lines 143-148 *)
TestQdrantConnection ==
  /\ pc = "ic_health"
  /\ \E ok \in BOOLEAN :
       /\ Issue("clusterStatus", ok)
       /\ IF ok
            THEN Goto(IF DimensionsCached THEN "ic_list" ELSE "ic_detect")
            ELSE InitFailed(<<MsgUnhealthy>>)
  /\ UNCHANGED <<envVars, collection, svcVars, reqVars, relevantDocs>>

(* line 112: the embedding probe *)
DetectEmbeddingDimensions ==
  /\ pc = "ic_detect"
  /\ \E ok \in BOOLEAN :
       /\ Issue("embedProbe", ok)
       /\ IF ok
            THEN /\ actualVectorSize' = embedDim
                 /\ Goto("ic_list")
            ELSE /\ UNCHANGED actualVectorSize
                 /\ InitFailed(EmbedError)
  /\ UNCHANGED <<envVars, collection, vectorStore, retrievalChain,
                 isInitialized, reqVars, relevantDocs>>

(* lines 151-156, 192-194 *)
GetCollections ==
  /\ pc = "ic_list"
  /\ \E ok \in BOOLEAN :
       /\ Issue("getCollections", ok)
       /\ IF ok
            THEN Goto(IF collection.exists THEN "ic_get" ELSE "ic_create_new")
            ELSE InitFailed(StoreError)
  /\ UNCHANGED <<envVars, collection, svcVars, reqVars, relevantDocs>>

(* lines 160-177, and the catch of line 187 *)
GetCollection ==
  /\ pc = "ic_get"
  /\ \E ok \in BOOLEAN :
       /\ Issue("getCollection", ok)
       /\ IF ok
            THEN Goto(IF DimensionMismatch(collection.size, actualVectorSize)
                        THEN "ic_delete" ELSE "ic_test")
            ELSE Goto("ic_recover_delete")
  /\ UNCHANGED <<envVars, collection, svcVars, reqVars, relevantDocs>>

(* lines 180-185 with testCollectionQuery, lines 210-222 *)
TestCollectionQuery ==
  /\ pc = "ic_test"
  /\ \E ok \in BOOLEAN :
       /\ Issue("testQuery", ok)
       /\ IF ok
            THEN BindVectorStore
            ELSE /\ Goto("ic_delete")
                 /\ UNCHANGED vectorStore
  /\ UNCHANGED <<envVars, collection, retrievalChain, actualVectorSize,
                 isInitialized, reqVars, relevantDocs>>

(* lines 174 and 183: deleteCollection inside the try block *)
DeleteCollection ==
  /\ pc = "ic_delete"
  /\ \E ok \in BOOLEAN :
       /\ Issue("deleteCollection", ok)
       /\ IF ok
            THEN /\ collection' = NoCollection
                 /\ Goto("ic_create")
            ELSE /\ UNCHANGED collection
                 /\ Goto("ic_recover_delete")
  /\ UNCHANGED <<envVars, svcVars, reqVars, relevantDocs>>

(* lines 175 and 184: createCollectionWithDimensions inside the try block *)
RecreateCollection ==
  /\ pc = "ic_create"
  /\ \E ok \in BOOLEAN :
       /\ Issue("createCollection", ok)
       /\ IF ok
            THEN /\ collection' = createCollectionWithDimensions(actualVectorSize)
                 /\ BindVectorStore
            ELSE /\ UNCHANGED <<collection, vectorStore>>
                 /\ Goto("ic_recover_delete")
  /\ UNCHANGED <<envVars, retrievalChain, actualVectorSize, isInitialized,
                 reqVars, relevantDocs>>

(* line 189: deleteCollection in the catch block; deleting a collection   *)
(* that is already gone is not an error for the store                     *)
RecoverDeleteCollection ==
  /\ pc = "ic_recover_delete"
  /\ \E ok \in BOOLEAN :
       /\ Issue("deleteCollection", ok)
       /\ IF ok
            THEN /\ collection' = NoCollection
                 /\ Goto("ic_recover_create")
            ELSE /\ UNCHANGED collection
                 /\ InitFailed(StoreError)
  /\ UNCHANGED <<envVars, svcVars, reqVars, relevantDocs>>

(* line 190: createCollectionWithDimensions in the catch block *)
RecoverCreateCollection ==
  /\ pc = "ic_recover_create"
  /\ \E ok \in BOOLEAN :
       /\ Issue("createCollection", ok)
       /\ IF ok
            THEN /\ collection' = createCollectionWithDimensions(actualVectorSize)
                 /\ BindVectorStore
            ELSE /\ UNCHANGED <<collection, vectorStore>>
                 /\ InitFailed(StoreError)
  /\ UNCHANGED <<envVars, retrievalChain, actualVectorSize, isInitialized,
                 reqVars, relevantDocs>>

(* line 194: createCollectionWithDimensions when no collection exists *)
CreateNewCollection ==
  /\ pc = "ic_create_new"
  /\ \E ok \in BOOLEAN :
       /\ Issue("createCollection", ok)
       /\ IF ok
            THEN /\ collection' = createCollectionWithDimensions(actualVectorSize)
                 /\ BindVectorStore
            ELSE /\ UNCHANGED <<collection, vectorStore>>
                 /\ InitFailed(StoreError)
  /\ UNCHANGED <<envVars, retrievalChain, actualVectorSize, isInitialized,
                 reqVars, relevantDocs>>

----------------------------------------------------------------------------
(* Texts.  A text is a tuple of one-character strings; chunk ids, text    *)
(* ids and question ids name the texts the model draws its inputs from.   *)

LongContentLength == 200

Chars(n, c) == [i \in 1..n |-> c]

(* String.prototype.toLowerCase on one character *)
ToLowerChar(c) ==
  CASE c = "A" -> "a" [] c = "B" -> "b" [] c = "C" -> "c" [] c = "D" -> "d"
    [] c = "E" -> "e" [] c = "F" -> "f" [] c = "G" -> "g" [] c = "H" -> "h"
    [] c = "I" -> "i" [] c = "J" -> "j" [] c = "K" -> "k" [] c = "L" -> "l"
    [] c = "M" -> "m" [] c = "N" -> "n" [] c = "O" -> "o" [] c = "P" -> "p"
    [] c = "Q" -> "q" [] c = "R" -> "r" [] c = "S" -> "s" [] c = "T" -> "t"
    [] c = "U" -> "u" [] c = "V" -> "v" [] c = "W" -> "w" [] c = "X" -> "x"
    [] c = "Y" -> "y" [] c = "Z" -> "z" [] OTHER -> c

ToLower(text) == [i \in 1..Len(text) |-> ToLowerChar(text[i])]

ParisText ==
  <<"P","a","r","i","s"," ","i","s"," ","t","h","e"," ","c","a",
    "p","i","t","a","l"," ","o","f"," ","F","r","a","n","c","e",
    "."," ","T","h","e"," ","E","i","f","f","e","l"," ","T","o",
    "w","e","r"," ","i","s"," ","i","n"," ","P","a","r","i","s",
    ".">>

ParisQuestion ==
  <<"W","h","a","t"," ","i","s"," ","t","h","e"," ","c","a","p",
    "i","t","a","l"," ","o","f"," ","F","r","a","n","c","e","?">>

VerbatimText == <<"Q",":"," ">> \o ParisQuestion

(* A question whose two words are separated by a tab *)
TabQuestion ==
  <<"c","a","p","i","t","a","l","\t","F","r","a","n","c","e">>

TextOf(id) ==
  CASE id = "c1" -> ParisText
    [] id = "c2" -> Chars(LongContentLength + 1, "x")
    [] id = "q1" -> ParisQuestion
    [] id = "q2" -> <<"i","s"," ","i","t">>
    [] id = "q3" -> TabQuestion
    [] id = "v1" -> VerbatimText
    [] id = "u1" -> Chars(Len(VerbatimText), "z")
    [] id = "v2" -> <<"i","s"," ","i","t">>
    [] id = "u2" -> Chars(5, "z")
    [] OTHER -> <<>>

Questions == {"q1", "q2"}

(* String.prototype.includes *)
Includes(text, part) ==
  \E i \in 0..(Len(text) - Len(part)) :
     \A j \in 1..Len(part) : text[i + j] = part[j]

(* String.prototype.split(' '): the maximal runs between spaces, empty    *)
(* runs included, as the set of [from, to] index pairs (to = from - 1 for *)
(* an empty run)                                                          *)
SplitWords(text) ==
  LET cuts == {0} \cup {i \in 1..Len(text) : text[i] = " "} \cup {Len(text) + 1}
  IN  {w \in [from : 1..(Len(text) + 1), to : 0..Len(text)] :
         /\ (w.from - 1) \in cuts
         /\ (w.to + 1) \in cuts
         /\ w.to >= w.from - 1
         /\ \A i \in w.from..w.to : text[i] # " "}

Word(text, w) == [i \in 1..(w.to - w.from + 1) |-> text[w.from + i - 1]]

(* Numbers the scorer returns: NaN, or the fraction num / den *)
NaN == [nan |-> TRUE]
Frac(n, d) == [nan |-> FALSE, num |-> n, den |-> d]
Zero == Frac(0, 1)
IsZero(x) == ~x.nan /\ x.num = 0

(* line 593: the filter word.length > 3 *)
LongWord_Inclusive(w) == w.to - w.from + 1 >= 3
LongWord(w) == w.to - w.from + 1 > 3

(* calculateConfidence, lines 590-615.  With n question words the        *)
(* per-document score is counted in units of 1/(10 n).                    *)
calculateConfidence(question, docs) ==
  IF Len(docs) = 0 THEN Zero
  ELSE
    LET q == ToLower(TextOf(question))
        questionWords == {w \in SplitWords(q) : LongWord(w)}
        n == Cardinality(questionWords)
        docScore(d) ==
          LET pageContent == TextOf(d)
              content == ToLower(pageContent)
              matched == {w \in questionWords : Includes(content, Word(q, w))}
          IN  (IF Includes(content, q) THEN 4 * n ELSE 0)
              + 3 * Cardinality(matched)
              + (IF Len(pageContent) > LongContentLength THEN n ELSE 0)
        total[k \in 0..Len(docs)] ==
          IF k = 0 THEN 0 ELSE total[k - 1] + docScore(docs[k])
    IN  IF n = 0 THEN NaN
        ELSE IF total[Len(docs)] > 10 * n * Len(docs) THEN Frac(1, 1)
        ELSE Frac(total[Len(docs)], 10 * n * Len(docs))

----------------------------------------------------------------------------
(* Retrieval results *)

(* lines 456-459 and 556-559: a Document from a stored point; a point     *)
(* without a pageContent payload becomes a document with empty content    *)
DocumentOf(point) == IF point = NoPayload THEN EmptyContent ELSE point

(* What a nearest-neighbour query with limit TopK can return: up to TopK  *)
(* distinct points of the collection, in the order the store ranks them   *)
Rankings ==
  IF ~collection.exists THEN {}
  ELSE LET n == Len(collection.points)
       IN  {r \in SeqUpTo(1..n, Min(TopK, n)) :
              \A i, j \in 1..Len(r) : i # j => r[i] # r[j]}

PointsOf(ranking) == [i \in 1..Len(ranking) |-> collection.points[ranking[i]]]
DocumentsOf(points) == [i \in 1..Len(points) |-> DocumentOf(points[i])]

----------------------------------------------------------------------------
(* getCollectionStats, lines 617-644: `ok` is whether getCollection       *)
(* returned                                                               *)

StatsVectorDimensions ==
  IF actualVectorSize # Null THEN actualVectorSize ELSE DefaultDimensions

getCollectionStats_ReadyOnError(ok) ==
  [totalPoints |-> IF ok THEN Len(collection.points) ELSE 0,
   vectorsCount |-> IF ok THEN Len(collection.points) ELSE 0,
   collectionName |-> "collection",
   isReady |-> retrievalChain,
   vectorDimensions |-> StatsVectorDimensions]
getCollectionStats(ok) ==
  IF ok
    THEN [totalPoints |-> Len(collection.points),
          vectorsCount |-> Len(collection.points),
          collectionName |-> "collection",
          isReady |-> retrievalChain,
          vectorDimensions |-> StatsVectorDimensions]
    ELSE [totalPoints |-> 0,
          vectorsCount |-> 0,
          collectionName |-> "collection",
          isReady |-> FALSE,
          vectorDimensions |-> StatsVectorDimensions]

(* The store can answer getCollection only for a collection that exists *)
GetCollectionOutcomes == IF collection.exists THEN BOOLEAN ELSE {FALSE}

----------------------------------------------------------------------------
(* shared-rag-service.ts and the start of a request                       *)

MaxMs == 1
Times == 0..MaxMs

Idle == pc \in {"idle", "done"}

(* getRAGService: the shared instance, constructed on first use *)
getRAGService ==
  /\ sharedRAGService' = TRUE
  /\ IF sharedRAGService
       THEN UNCHANGED svcVars
       ELSE /\ vectorStore' = FALSE
            /\ retrievalChain' = FALSE
            /\ actualVectorSize' = Null
            /\ isInitialized' = FALSE

Begin(name, input) ==
  /\ Idle
  /\ op' = name
  /\ arg' = input
  /\ pre' = Snapshot(name)
  /\ icPre' = NoCollection
  /\ log' = <<>>
  /\ relevantDocs' = <<>>
  /\ err' = <<>>

Pending == [kind |-> "pending"]

Finish(value) ==
  /\ result' = value
  /\ pc' = "done"
  /\ stack' = <<>>

----------------------------------------------------------------------------
(* AutoFixRAGService.initialize, lines 689-700                            *)

NeedsInitialize_Always == TRUE

(* line 690 *)
NeedsInitialize == ~isInitialized

Initialize ==
  /\ pc = "initialize"
  /\ IF NeedsInitialize
       THEN CallInitializeCollection("initialize_ok", "initialize_throw")
       ELSE Return /\ UNCHANGED icPre
  /\ UNCHANGED <<envVars, collection, svcVars, op, arg, pre, result,
                 relevantDocs, log>>

(* line 693 *)
InitializeOk ==
  /\ pc = "initialize_ok"
  /\ isInitialized' = TRUE
  /\ Return
  /\ UNCHANGED <<envVars, collection, vectorStore, retrievalChain,
                 actualVectorSize, reqVars, relevantDocs, log>>

(* lines 695-698 *)
InitializeThrow ==
  /\ pc = "initialize_throw"
  /\ Throw(err)
  /\ UNCHANGED <<envVars, collection, svcVars, reqVars, relevantDocs, log>>

(* A caller that awaits service.initialize() itself *)
StartInitialize ==
  /\ Begin("initialize", "none")
  /\ getRAGService
  /\ pc' = "initialize"
  /\ stack' = <<Frame("initialize_return", "initialize_raise")>>
  /\ result' = Pending
  /\ UNCHANGED <<embedDim, collection>>

InitializeReturn ==
  /\ pc = "initialize_return"
  /\ Finish([kind |-> "void"])
  /\ UNCHANGED <<envVars, collection, svcVars, op, arg, pre, icPre, relevantDocs,
                 err, log>>

InitializeRaise ==
  /\ pc = "initialize_raise"
  /\ Finish([kind |-> "throw", error |-> err])
  /\ UNCHANGED <<envVars, collection, svcVars, op, arg, pre, icPre, relevantDocs,
                 err, log>>

----------------------------------------------------------------------------
(* AutoFixRAGService.getStats, lines 746-768, behind GET /api/stats       *)

NotInitializedStats ==
  [totalPoints |-> 0, vectorsCount |-> 0, collectionName |-> "Not initialized",
   isReady |-> FALSE, vectorDimensions |-> DefaultDimensions]

StartStats ==
  /\ Begin("stats", "none")
  /\ getRAGService
  /\ IF ~isInitialized'
       THEN Finish([kind |-> "stats", stats |-> NotInitializedStats])
       ELSE /\ pc' = "stats_get"
            /\ stack' = <<>>
            /\ result' = Pending
  /\ UNCHANGED <<embedDim, collection>>

StatsGetCollection ==
  /\ pc = "stats_get"
  /\ \E ok \in GetCollectionOutcomes :
       /\ Issue("getCollection", ok)
       /\ Finish([kind |-> "stats", stats |-> getCollectionStats(ok)])
  /\ UNCHANGED <<envVars, collection, svcVars, op, arg, pre, icPre, relevantDocs, err>>

----------------------------------------------------------------------------
(* POST /api/clear: clearAll (lines 770-779), clearDocuments (646-662),   *)
(* then resetRAGService                                                   *)

(* lines 653-655 and 773, then resetRAGService *)
ResetPipeline ==
  /\ vectorStore' = FALSE
  /\ retrievalChain' = FALSE
  /\ actualVectorSize' = Null
  /\ isInitialized' = FALSE
  /\ sharedRAGService' = FALSE

StartClear ==
  /\ Begin("clear", "none")
  /\ IF sharedRAGService /\ vectorStore
       THEN /\ pc' = "clear_delete"
            /\ stack' = <<>>
            /\ result' = Pending
            /\ UNCHANGED <<svcVars, sharedRAGService>>
       ELSE /\ ResetPipeline
            /\ Finish([kind |-> "cleared"])
  /\ UNCHANGED <<embedDim, collection>>

ClearDeleteCollection_ResetAnyway ==
  /\ pc = "clear_delete"
  /\ \E ok \in BOOLEAN :
       /\ Issue("deleteCollection", ok)
       /\ collection' = IF ok THEN NoCollection ELSE collection
       /\ ResetPipeline
       /\ err' = IF ok THEN err ELSE StoreError
       /\ Finish(IF ok THEN [kind |-> "cleared"]
                       ELSE [kind |-> "http500", error |-> StoreError])
  /\ UNCHANGED <<embedDim, op, arg, pre, icPre, relevantDocs>>

ClearDeleteCollection ==
  /\ pc = "clear_delete"
  /\ \E ok \in BOOLEAN :
       /\ Issue("deleteCollection", ok)
       /\ IF ok
            THEN /\ collection' = NoCollection
                 /\ ResetPipeline
                 /\ Finish([kind |-> "cleared"])
                 /\ UNCHANGED err
            ELSE /\ err' = StoreError
                 /\ Finish([kind |-> "http500", error |-> StoreError])
                 /\ UNCHANGED <<collection, svcVars, sharedRAGService>>
  /\ UNCHANGED <<embedDim, op, arg, pre, icPre, relevantDocs>>

----------------------------------------------------------------------------
(* POST /api/query: queryDocument (lines 726-734) and askQuestion         *)
(* (lines 410-528)                                                        *)

QAResult(answer, sources, confidence, retrievalTime, generationTime) ==
  [kind |-> "qa", answer |-> answer, sources |-> sources,
   confidence |-> confidence,
   metadata |-> [retrievalTime |-> retrievalTime,
                 generationTime |-> generationTime,
                 chunksUsed |-> Len(sources)]]

(* lines 471-482 *)
NoRelevantDocsResult(retrievalTime) ==
  [kind |-> "qa", answer |-> MsgNoRelevant, sources |-> <<>>,
   confidence |-> Zero,
   metadata |-> [retrievalTime |-> retrievalTime,
                 generationTime |-> 0,
                 chunksUsed |-> 0]]

(* lines 508-523 *)
AnswerResult(answer, retrievalTime, generationTime) ==
  QAResult(answer, relevantDocs, calculateConfidence(arg, relevantDocs),
           retrievalTime, generationTime)

QueryInputs == Questions \cup {""}

(* part_003 lines 11-15: the route rejects a blank question *)
StartQuery ==
  /\ \E question \in QueryInputs :
       /\ Begin("query", question)
       /\ getRAGService
       /\ IF question = ""
            THEN Finish([kind |-> "http400"])
            ELSE /\ pc' = "initialize"
                 /\ stack' = <<Frame("ask_entry", "query_catch")>>
                 /\ result' = Pending
  /\ UNCHANGED <<embedDim, collection>>

(* lines 730-733 *)
QueryCatch_Rethrow ==
  /\ pc = "query_catch"
  /\ Finish([kind |-> "throw", error |-> err])
  /\ UNCHANGED <<envVars, collection, svcVars, op, arg, pre, icPre, relevantDocs,
                 err, log>>

QueryCatch ==
  /\ pc = "query_catch"
  /\ Finish([kind |-> "error", error |-> Wrap(MsgQueryError, err)])
  /\ UNCHANGED <<envVars, collection, svcVars, op, arg, pre, icPre, relevantDocs,
                 err, log>>

(* the catch of askQuestion, lines 524-527 *)
AskFailed(e) ==
  /\ pc' = "query_catch"
  /\ err' = Wrap(MsgAnswerFailed, e)
  /\ UNCHANGED stack

(* lines 411-413 *)
AskPrecondition == retrievalChain /\ vectorStore

AskQuestionEntry ==
  /\ pc = "ask_entry"
  /\ IF AskPrecondition
       THEN Goto("ask_stats")
       ELSE /\ pc' = "query_catch"
            /\ err' = <<MsgNoDocsProcessed>>
            /\ UNCHANGED stack
  /\ UNCHANGED <<envVars, collection, svcVars, reqVars, relevantDocs, log>>

IsEmptyCorpus_Unchecked(stats) == FALSE

(* lines 419-422 *)
IsEmptyCorpus(stats) == stats.totalPoints = 0

AskGetCollectionStats ==
  /\ pc = "ask_stats"
  /\ \E ok \in GetCollectionOutcomes :
       /\ Issue("getCollection", ok)
       /\ IF IsEmptyCorpus(getCollectionStats(ok))
            THEN AskFailed(<<MsgNoDocsFound>>)
            ELSE Goto("ask_similarity")
  /\ UNCHANGED <<envVars, collection, svcVars, reqVars, relevantDocs>>

NoDocsRetrieved_Unchecked(docs) == FALSE

(* line 471 *)
NoDocsRetrieved(docs) == Len(docs) = 0

(* After a tier returned `docs`: lines 469-484 *)
AskRetrieved(docs) ==
  /\ relevantDocs' = docs
  /\ IF NoDocsRetrieved(docs)
       THEN /\ \E retrievalTime \in Times :
                 Finish(NoRelevantDocsResult(retrievalTime))
            /\ UNCHANGED err
       ELSE /\ Goto("ask_chain")
            /\ UNCHANGED result

AskAfterSearchError_SkipRetriever == "ask_embed"

(* lines 434-441: the catch of tier 1 tries the retriever *)
AskAfterSearchError == "ask_retriever"

(* line 432: tier 1, vectorStore.similaritySearch *)
AskSimilaritySearch ==
  /\ pc = "ask_similarity"
  /\ \/ \E r \in Rankings :
          /\ IssueQuery("similaritySearch", PointsOf(r))
          /\ AskRetrieved(DocumentsOf(PointsOf(r)))
     \/ /\ Issue("similaritySearch", FALSE)
        /\ Goto(AskAfterSearchError)
        /\ UNCHANGED <<relevantDocs, result>>
  /\ UNCHANGED <<envVars, collection, svcVars, op, arg, pre, icPre>>

(* lines 440-441: tier 2, retriever.invoke *)
AskRetrieverInvoke ==
  /\ pc = "ask_retriever"
  /\ \/ \E r \in Rankings :
          /\ IssueQuery("retrieverInvoke", PointsOf(r))
          /\ AskRetrieved(DocumentsOf(PointsOf(r)))
     \/ /\ Issue("retrieverInvoke", FALSE)
        /\ Goto("ask_embed")
        /\ UNCHANGED <<relevantDocs, result>>
  /\ UNCHANGED <<envVars, collection, svcVars, op, arg, pre, icPre>>

(* line 449: tier 3, embedQuery; lines 462-465 when it raises *)
AskEmbedQuery ==
  /\ pc = "ask_embed"
  /\ \E ok \in BOOLEAN :
       /\ Issue("embedQuery", ok)
       /\ IF ok
            THEN Goto("ask_direct")
            ELSE AskFailed(Wrap(MsgAllRetrievalFailed, EmbedError))
  /\ UNCHANGED <<envVars, collection, svcVars, reqVars, relevantDocs>>

(* lines 450-461: tier 3, qdrantClient.query; lines 462-465 when it raises *)
AskDirectQuery ==
  /\ pc = "ask_direct"
  /\ \/ \E r \in Rankings :
          /\ IssueQuery("directQuery", PointsOf(r))
          /\ AskRetrieved(DocumentsOf(PointsOf(r)))
     \/ /\ Issue("directQuery", FALSE)
        /\ AskFailed(Wrap(MsgAllRetrievalFailed, StoreError))
        /\ UNCHANGED <<relevantDocs, result>>
  /\ UNCHANGED <<envVars, collection, svcVars, op, arg, pre, icPre>>

AskChainFailed_NoFallback ==
  /\ pc' = "query_catch"
  /\ err' = Wrap(MsgAnswerFailed, LlmError)
  /\ UNCHANGED <<stack, result>>

(* lines 491-504: the catch of the chain goes on to the manual prompt *)
AskChainFailed ==
  /\ Goto("ask_llm")
  /\ UNCHANGED result

(* lines 488-491: the retrieval chain, which retrieves with its own       *)
(* retriever (lines 342-350) and generates from what that returns; a      *)
(* returned call is logged with the documents of its context              *)
AskChainInvoke ==
  /\ pc = "ask_chain"
  /\ \/ \E r \in Rankings :
          /\ IssueQuery("chainInvoke", DocumentsOf(PointsOf(r)))
          /\ \E retrievalTime, generationTime \in Times :
               Finish(AnswerResult("chain answer", retrievalTime,
                                   generationTime))
          /\ UNCHANGED err
     \/ /\ Issue("chainInvoke", FALSE)
        /\ AskChainFailed
  /\ UNCHANGED <<envVars, collection, svcVars, op, arg, pre, icPre, relevantDocs>>

(* lines 495-505: the manual prompt, whose context is relevantDocs, and   *)
(* one plain generation call; a returned call is logged with its context  *)
AskLlmInvoke ==
  /\ pc = "ask_llm"
  /\ \/ /\ IssueQuery("llmInvoke", relevantDocs)
        /\ \E retrievalTime, generationTime \in Times :
             Finish(AnswerResult("manual answer", retrievalTime,
                                 generationTime))
        /\ UNCHANGED err
     \/ /\ Issue("llmInvoke", FALSE)
        /\ AskFailed(LlmError)
        /\ UNCHANGED result
  /\ UNCHANGED <<envVars, collection, svcVars, op, arg, pre, icPre, relevantDocs>>

----------------------------------------------------------------------------
(* POST /api/stream (route.ts), streamQuery (lines 736-744),              *)
(* askQuestionStream (lines 530-576) and convertStreamToStringIterable     *)
(* (lines 578-588)                                                        *)

StartStream ==
  /\ \E question \in QueryInputs :
       /\ Begin("stream", question)
       /\ getRAGService
       /\ IF question = ""
            THEN Finish([kind |-> "http400"])
            ELSE /\ pc' = "initialize"
                 /\ stack' = <<Frame("stream_entry", "stream_catch")>>
                 /\ result' = Pending
  /\ UNCHANGED <<embedDim, collection>>

(* lines 740-743 *)
StreamCatch ==
  /\ pc = "stream_catch"
  /\ Finish([kind |-> "error", error |-> Wrap(MsgStreamError, err)])
  /\ UNCHANGED <<envVars, collection, svcVars, op, arg, pre, icPre, relevantDocs,
                 err, log>>

StreamFailed(e) ==
  /\ pc' = "stream_catch"
  /\ err' = e
  /\ UNCHANGED stack

StreamPrecondition_Unchecked == TRUE

(* lines 531-533 *)
StreamPrecondition == vectorStore

AskQuestionStreamEntry ==
  /\ pc = "stream_entry"
  /\ IF StreamPrecondition
       THEN Goto("str_similarity")
       ELSE StreamFailed(<<MsgNoDocsProcessedStream>>)
  /\ UNCHANGED <<envVars, collection, svcVars, reqVars, relevantDocs, log>>

StreamRetrieved(docs) ==
  /\ relevantDocs' = docs
  /\ Goto("str_llm")

(* line 541 *)
StreamSimilaritySearch ==
  /\ pc = "str_similarity"
  /\ \/ \E r \in Rankings :
          /\ IssueQuery("similaritySearch", PointsOf(r))
          /\ StreamRetrieved(DocumentsOf(PointsOf(r)))
     \/ /\ Issue("similaritySearch", FALSE)
        /\ Goto("str_retriever")
        /\ UNCHANGED relevantDocs
  /\ UNCHANGED <<envVars, collection, svcVars, reqVars>>

(* lines 545-546 *)
StreamRetrieverInvoke ==
  /\ pc = "str_retriever"
  /\ \/ \E r \in Rankings :
          /\ IssueQuery("retrieverInvoke", PointsOf(r))
          /\ StreamRetrieved(DocumentsOf(PointsOf(r)))
     \/ /\ Issue("retrieverInvoke", FALSE)
        /\ Goto("str_embed")
        /\ UNCHANGED relevantDocs
  /\ UNCHANGED <<envVars, collection, svcVars, reqVars>>

(* line 549: not inside a try block of askQuestionStream *)
StreamEmbedQuery ==
  /\ pc = "str_embed"
  /\ \E ok \in BOOLEAN :
       /\ Issue("embedQuery", ok)
       /\ IF ok THEN Goto("str_direct") ELSE StreamFailed(EmbedError)
  /\ UNCHANGED <<envVars, collection, svcVars, reqVars, relevantDocs>>

(* lines 550-559 *)
StreamDirectQuery ==
  /\ pc = "str_direct"
  /\ \/ \E r \in Rankings :
          /\ IssueQuery("directQuery", PointsOf(r))
          /\ StreamRetrieved(DocumentsOf(PointsOf(r)))
     \/ /\ Issue("directQuery", FALSE)
        /\ StreamFailed(StoreError)
        /\ UNCHANGED relevantDocs
  /\ UNCHANGED <<envVars, collection, svcVars, reqVars>>

(* The generation stream delivers a finite sequence of message chunks     *)
(* whose content is a string (possibly empty) or an array of content      *)
(* parts                                                                  *)
MaxFragments == 2

FragmentContents ==
  {[type |-> "string", text |-> <<"a">>],
   [type |-> "string", text |-> <<"b">>],
   [type |-> "string", text |-> <<>>],
   [type |-> "array", text |-> <<"o">>]}

(* JavaScript truthiness of chunk.content: only the empty string is falsy *)
Truthy(content) == ~(content.type = "string" /\ content.text = <<>>)

(* String(chunk.content) *)
StringOf(content) ==
  IF content.type = "string" THEN content.text ELSE <<"[object Object]">>

(* convertStreamToStringIterable, lines 578-588: the strings yielded for  *)
(* one chunk of the generation stream                                     *)
Yields_StringsOnly(content) ==
  IF content.type = "string" /\ Truthy(content) THEN <<content.text>> ELSE <<>>
Yields(content) ==
  IF Truthy(content) /\ content.type = "string" THEN <<content.text>>
  ELSE IF Truthy(content) THEN <<StringOf(content)>>
  ELSE <<>>

(* route.ts lines 30 and 34: the events, each framed as                   *)
(* "data: " + JSON.stringify(event) + "\n\n"                              *)
ChunkEvent(text) == [type |-> "chunk", chunk |-> text]
DoneEvent == [type |-> "done", done |-> TRUE]

(* route.ts lines 26-49: the ReadableStream handed to the Response.       *)
(* produced holds the chunks the generation stream has delivered so far;  *)
(* pulling says that start() is waiting for the next one, which it does   *)
(* from the moment the stream is constructed.                             *)
StreamResponse(context) ==
  [kind |-> "stream", context |-> context, produced |-> <<>>,
   events |-> <<>>, state |-> "readable", pulling |-> TRUE,
   cancelled |-> FALSE, released |-> FALSE]

(* controller.enqueue succeeds only on a readable stream *)
CanEnqueue(r) == r.state = "readable"

(* route.ts lines 34-35 *)
Completed_NoClose(r) == [r EXCEPT !.events = Append(@, DoneEvent)]
Completed(r) ==
  [r EXCEPT !.events = Append(@, DoneEvent), !.state = "closed"]

(* route.ts line 38: controller.error, which acts on a readable stream    *)
(* only                                                                   *)
ControllerError_Ignored(r) == r
ControllerError(r) ==
  IF r.state = "readable" THEN [r EXCEPT !.state = "errored"] ELSE r

(* lines 563-575: the prompt over relevantDocs and llm.stream; route.ts   *)
(* lines 20-49: the Response over a ReadableStream whose start() pulls    *)
(* the answer while the handler returns                                   *)
StreamLlmStream ==
  /\ pc = "str_llm"
  /\ \E ok \in BOOLEAN :
       /\ Issue("llmStream", ok)
       /\ IF ok
            THEN /\ Finish(StreamResponse(relevantDocs))
                 /\ UNCHANGED err
            ELSE /\ StreamFailed(LlmError)
                 /\ UNCHANGED result
  /\ UNCHANGED <<envVars, collection, svcVars, op, arg, pre, icPre, relevantDocs>>

(* The body of a streaming Response is being produced *)
Streaming ==
  /\ op = "stream"
  /\ pc = "done"
  /\ result.kind = "stream"
  /\ result.pulling

(* route.ts lines 28-39 with lines 581-587: the generation stream raises, *)
(* ends, or delivers the chunk the producer is waiting for                *)
SseResolve ==
  /\ Streaming
  /\ \/ (* the generation stream raises: route.ts lines 36-38 *)
        /\ result' = ControllerError([result EXCEPT !.pulling = FALSE])
        /\ Issue("streamNext", FALSE)
     \/ (* the generation stream has ended: route.ts lines 34-35 *)
        /\ result' = IF CanEnqueue(result)
                       THEN Completed([result EXCEPT !.pulling = FALSE])
                       ELSE ControllerError([result EXCEPT !.pulling = FALSE])
        /\ UNCHANGED log
     \/ /\ Len(result.produced) < MaxFragments
        /\ UNCHANGED log
        /\ \E content \in FragmentContents :
             LET r == [result EXCEPT !.produced = Append(@, content)]
                 yielded == Yields(content)
             IN  IF yielded = <<>>
                   THEN (* lines 582-586 yield nothing; the next chunk is awaited *)
                        result' = r
                 ELSE IF CanEnqueue(r)
                   THEN (* route.ts lines 30-31; the next chunk is awaited *)
                        result' = [r EXCEPT
                                     !.events = Append(@, ChunkEvent(yielded[1]))]
                   ELSE (* enqueue throws: leaving the loop returns the      *)
                        (* iterators, and line 38 finds the stream closed   *)
                        result' = ControllerError(
                                    [r EXCEPT !.released = TRUE, !.pulling = FALSE])
  /\ UNCHANGED <<envVars, collection, svcVars, op, arg, pre, icPre, relevantDocs,
                 err, stack, pc>>

(* The consumer cancels the response body while the producer waits for    *)
(* the generation stream: the stream becomes closed                       *)
SseCancel ==
  /\ Streaming
  /\ result.state = "readable"
  /\ result' = [result EXCEPT !.state = "closed", !.cancelled = TRUE]
  /\ UNCHANGED <<envVars, collection, svcVars, op, arg, pre, icPre, relevantDocs,
                 err, log, stack, pc>>

----------------------------------------------------------------------------
(* POST /api/upload: uploadAndProcess (lines 702-724), processFile        *)
(* (386-408), processPDF (359-384), processText (247-313)                 *)

Texts == {" ", "t1", "t2"}

(* line 255: !text || text.trim().length === 0 *)
IsBlank(text) == text \in {"", " "}

(* lines 259-277: the chunk documents the splitter yields for a text *)
ChunksOf(text) ==
  CASE text = "t1" -> <<"c1">>
    [] text = "t2" -> <<"c1", "c2">>
    [] OTHER -> <<>>

FileKinds ==
  {[type |-> "application/pdf", txtName |-> FALSE],
   [type |-> "text/plain", txtName |-> FALSE],
   [type |-> "other", txtName |-> TRUE],
   [type |-> "other", txtName |-> FALSE]}

Files == {[type |-> k.type, txtName |-> k.txtName, text |-> t] :
            k \in FileKinds, t \in Texts}

(* part_002 lines 19-20 *)
RouteAcceptsFile_Any(file) == TRUE
RouteAcceptsFile(file) ==
  file.type \in {"application/pdf", "text/plain"} \/ file.txtName

StartUpload ==
  /\ \E file \in Files :
       /\ Begin("upload", file)
       /\ getRAGService
       /\ IF ~RouteAcceptsFile(file)
            THEN Finish([kind |-> "http400"])
            ELSE /\ pc' = "initialize"
                 /\ stack' = <<Frame("process_file", "upload_catch")>>
                 /\ result' = Pending
  /\ UNCHANGED <<embedDim, collection>>

(* lines 717-723 *)
UploadCatch ==
  /\ pc = "upload_catch"
  /\ Finish([kind |-> "upload", success |-> FALSE,
             message |-> Wrap(MsgProcessFileError, err)])
  /\ UNCHANGED <<envVars, collection, svcVars, op, arg, pre, icPre, relevantDocs,
                 err, log>>

UploadFailed(e) ==
  /\ pc' = "upload_catch"
  /\ err' = e
  /\ UNCHANGED stack

(* lines 392-403 *)
ProcessFile ==
  /\ pc = "process_file"
  /\ IF arg.type = "application/pdf"
       THEN Goto("pdf_parse")
       ELSE IF arg.type = "text/plain" \/ arg.txtName
              THEN Goto("process_text")
              ELSE UploadFailed(<<MsgUnsupported>>)
  /\ UNCHANGED <<envVars, collection, svcVars, reqVars, relevantDocs, log>>

(* lines 380-383: processPDF wraps what it catches *)
PdfWrap(e) == IF arg.type = "application/pdf" THEN Wrap(MsgPdfFailed, e) ELSE e

(* lines 363-369 *)
PdfParse ==
  /\ pc = "pdf_parse"
  /\ \E ok \in BOOLEAN :
       /\ Issue("pdfParse", ok)
       /\ IF ~ok
            THEN UploadFailed(PdfWrap(<<MsgPdfParse>>))
            ELSE IF IsBlank(arg.text)
                   THEN UploadFailed(PdfWrap(<<MsgNoPdfText>>))
                   ELSE Goto("process_text")
  /\ UNCHANGED <<envVars, collection, svcVars, reqVars, relevantDocs>>

(* the catch of processText, lines 309-312, then processPDF's *)
ProcessTextFailed(e) == UploadFailed(PdfWrap(Wrap(MsgProcessTextFailed, e)))

(* lines 251-253 *)
ProcessText ==
  /\ pc = "process_text"
  /\ IF ~vectorStore
       THEN CallInitializeCollection("pt_check", "pt_catch")
       ELSE Goto("pt_check") /\ UNCHANGED icPre
  /\ UNCHANGED <<envVars, collection, svcVars, op, arg, pre, result,
                 relevantDocs, log>>

ProcessTextCatch ==
  /\ pc = "pt_catch"
  /\ ProcessTextFailed(err)
  /\ UNCHANGED <<envVars, collection, svcVars, reqVars, relevantDocs, log>>

(* lines 255-257 *)
ProcessTextCheck ==
  /\ pc = "pt_check"
  /\ IF IsBlank(arg.text)
       THEN ProcessTextFailed(<<MsgNoText>>)
       ELSE Goto("pt_add")
  /\ UNCHANGED <<envVars, collection, svcVars, reqVars, relevantDocs, log>>

(* vectorStore.addDocuments returned: the chunk documents are points *)
Stored(chunks) == [collection EXCEPT !.points = @ \o chunks]

CanStore(chunks) ==
  /\ collection.exists
  /\ Len(collection.points) + Len(chunks) <= MaxPoints

(* line 307: createRetrievalChain, lines 315-357 *)
CreateRetrievalChain == retrievalChain' = TRUE

(* What vectorStore.addDocuments can raise: a store error, or one whose    *)
(* message mentions the vector dimension                                  *)
DimensionError == <<"vector dimension error">>
AddErrors == {StoreError, DimensionError}

(* line 289: error.message.includes('dimension') *)
MentionsDimension_Always(e) == TRUE
MentionsDimension(e) == e = DimensionError

(* A call that raised e *)
IssueFailure(name, e) == log' = Append(log, Call(name, FALSE, e))

(* lines 282-304 *)
AddDocuments ==
  /\ pc = "pt_add"
  /\ \/ /\ CanStore(ChunksOf(arg.text))
        /\ Issue("addDocuments", TRUE)
        /\ collection' = Stored(ChunksOf(arg.text))
        /\ CreateRetrievalChain
        /\ Goto("upload_stats")
        /\ UNCHANGED <<vectorStore, actualVectorSize, icPre>>
     \/ \E e \in AddErrors :
          /\ IssueFailure("addDocuments", e)
          /\ IF MentionsDimension(e)
               THEN (* lines 291-294: reset and reinitialize *)
                    /\ vectorStore' = FALSE
                    /\ actualVectorSize' = Null
                    /\ CallInitializeCollection("pt_retry", "pt_catch")
                    /\ UNCHANGED <<collection, retrievalChain>>
               ELSE (* line 303 *)
                    /\ ProcessTextFailed(e)
                    /\ UNCHANGED <<collection, vectorStore, retrievalChain,
                                   actualVectorSize, icPre>>
  /\ UNCHANGED <<envVars, isInitialized, op, arg, pre, result, relevantDocs>>

(* line 297: the one retry after reinitialization *)
RetryAddDocuments ==
  /\ pc = "pt_retry"
  /\ \/ /\ CanStore(ChunksOf(arg.text))
        /\ Issue("addDocuments", TRUE)
        /\ collection' = Stored(ChunksOf(arg.text))
        /\ CreateRetrievalChain
        /\ Goto("upload_stats")
     \/ \E e \in AddErrors :
          /\ IssueFailure("addDocuments", e)
          /\ ProcessTextFailed(e)
          /\ UNCHANGED <<collection, retrievalChain>>
  /\ UNCHANGED <<envVars, vectorStore, actualVectorSize, isInitialized, reqVars,
                 relevantDocs>>

(* lines 710-716 *)
UploadGetCollectionStats_Raises ==
  /\ pc = "upload_stats"
  /\ \E ok \in GetCollectionOutcomes :
       /\ Issue("getCollection", ok)
       /\ Finish(IF ok
                   THEN [kind |-> "upload", success |-> TRUE,
                         message |-> <<"Successfully processed">>,
                         stats |-> getCollectionStats(ok)]
                   ELSE [kind |-> "upload", success |-> FALSE,
                         message |-> Wrap(MsgProcessFileError, StoreError)])
  /\ UNCHANGED <<envVars, collection, svcVars, op, arg, pre, icPre, relevantDocs, err>>

UploadGetCollectionStats ==
  /\ pc = "upload_stats"
  /\ \E ok \in GetCollectionOutcomes :
       /\ Issue("getCollection", ok)
       /\ Finish([kind |-> "upload", success |-> TRUE,
                  message |-> <<"Successfully processed">>,
                  stats |-> getCollectionStats(ok)])
  /\ UNCHANGED <<envVars, collection, svcVars, op, arg, pre, icPre, relevantDocs, err>>

----------------------------------------------------------------------------

Next ==
  \/ StartInitialize \/ Initialize \/ InitializeOk \/ InitializeThrow
  \/ InitializeReturn \/ InitializeRaise
  \/ TestQdrantConnection \/ DetectEmbeddingDimensions \/ GetCollections
  \/ GetCollection \/ TestCollectionQuery \/ DeleteCollection
  \/ RecreateCollection \/ RecoverDeleteCollection
  \/ RecoverCreateCollection \/ CreateNewCollection
  \/ StartStats \/ StatsGetCollection
  \/ StartClear \/ ClearDeleteCollection
  \/ StartQuery \/ QueryCatch \/ AskQuestionEntry \/ AskGetCollectionStats
  \/ AskSimilaritySearch \/ AskRetrieverInvoke \/ AskEmbedQuery
  \/ AskDirectQuery \/ AskChainInvoke \/ AskLlmInvoke
  \/ StartStream \/ StreamCatch \/ AskQuestionStreamEntry
  \/ StreamSimilaritySearch \/ StreamRetrieverInvoke \/ StreamEmbedQuery
  \/ StreamDirectQuery \/ StreamLlmStream
  \/ StartUpload \/ UploadCatch \/ ProcessFile \/ PdfParse \/ ProcessText
  \/ ProcessTextCatch \/ ProcessTextCheck \/ AddDocuments
  \/ RetryAddDocuments \/ UploadGetCollectionStats

Spec == Init /\ [][Next]_vars

----------------------------------------------------------------------------
(* The confidence scorer on its own: calculateConfidence applied to a     *)
(* question and a list of documents drawn from bounded sets.              *)

ScoreQuestions == Questions \cup {"", "q3"}
ScoreContents == ChunkIds \cup {"v1", "u1", "v2", "u2", EmptyContent}
ScoreDocs == SeqUpTo(ScoreContents, Min(TopK, MaxPoints))

InitScore ==
  /\ embedDim \in Widths
  /\ collection = NoCollection
  /\ sharedRAGService = TRUE
  /\ vectorStore = FALSE
  /\ retrievalChain = FALSE
  /\ actualVectorSize = Null
  /\ isInitialized = FALSE
  /\ op = "score"
  /\ pc = "score"
  /\ stack = <<>>
  /\ arg \in ScoreQuestions
  /\ relevantDocs \in ScoreDocs
  /\ err = <<>>
  /\ log = <<>>
  /\ pre = [afterInitialize |-> FALSE, afterHealing |-> FALSE]
  /\ icPre = NoCollection
  /\ result = Pending

Score ==
  /\ pc = "score"
  /\ Finish([kind |-> "score",
             confidence |-> calculateConfidence(arg, relevantDocs)])
  /\ UNCHANGED <<envVars, collection, svcVars, op, arg, pre, icPre, relevantDocs,
                 err, log>>

NextScore == Score

SpecScore == InitScore /\ [][NextScore]_vars

----------------------------------------------------------------------------
(* One streaming request in depth: POST /api/stream on a service started  *)
(* over a store that may already hold a collection with documents, and    *)
(* the production of the response body after the handler has returned.    *)

StreamCollections ==
  InitCollections \cup
  {[exists |-> TRUE, size |-> w, points |-> p] :
      w \in Widths, p \in {<<"c1">>, <<"c1", "c2">>}}

InitStream ==
  /\ embedDim \in Widths
  /\ collection \in StreamCollections
  /\ sharedRAGService = FALSE
  /\ vectorStore = FALSE
  /\ retrievalChain = FALSE
  /\ actualVectorSize = Null
  /\ isInitialized = FALSE
  /\ op = "none"
  /\ pc = "idle"
  /\ stack = <<>>
  /\ arg = "none"
  /\ relevantDocs = <<>>
  /\ err = <<>>
  /\ log = <<>>
  /\ pre = [afterInitialize |-> FALSE, afterHealing |-> FALSE]
  /\ icPre = NoCollection
  /\ result = [kind |-> "none"]

NextStream ==
  \/ StartStream \/ Initialize \/ InitializeOk \/ InitializeThrow
  \/ TestQdrantConnection \/ DetectEmbeddingDimensions \/ GetCollections
  \/ GetCollection \/ TestCollectionQuery \/ DeleteCollection
  \/ RecreateCollection \/ RecoverDeleteCollection
  \/ RecoverCreateCollection \/ CreateNewCollection
  \/ StreamCatch \/ AskQuestionStreamEntry
  \/ StreamSimilaritySearch \/ StreamRetrieverInvoke \/ StreamEmbedQuery
  \/ StreamDirectQuery \/ StreamLlmStream
  \/ SseResolve \/ SseCancel

SpecStream == InitStream /\ [][NextStream]_vars

----------------------------------------------------------------------------
(* Concurrent requests.  Route handlers are async functions of one        *)
(* process: a request runs until its next await, where the handlers of    *)
(* other requests may run.  In this specification every AutoFixRAGService *)
(* that getRAGService constructs is kept: sharedRAGService is the number  *)
(* of the instance the module variable refers to (0 for null), and        *)
(* vectorStore, retrievalChain, actualVectorSize and isInitialized are    *)
(* sequences holding the field of instance i at position i.  op, pc and   *)
(* result are per caller, and stack[p] is the instance the handler of     *)
(* caller p holds in its local `ragService`.  The awaits of one           *)
(* initializeCollection run resolve without another handler in between.   *)
(* log lists the completed initializeCollection runs and the clears with  *)
(* the instance they ran on.                                              *)

MaxCallers == 3

Callers == 1..MaxCallers

RaceOps == {"upload", "query", "clear"}

InitRace ==
  /\ embedDim \in Widths
  /\ collection \in InitCollections
  /\ sharedRAGService = 0
  /\ vectorStore = <<>>
  /\ retrievalChain = <<>>
  /\ actualVectorSize = <<>>
  /\ isInitialized = <<>>
  /\ op = [p \in Callers |-> "none"]
  /\ pc = [p \in Callers |-> "idle"]
  /\ stack = [p \in Callers |-> 0]
  /\ arg = "t1"
  /\ relevantDocs = <<>>
  /\ err = <<>>
  /\ log = <<>>
  /\ pre = [afterInitialize |-> FALSE, afterHealing |-> FALSE]
  /\ icPre = NoCollection
  /\ result = [p \in Callers |-> Pending]

RaceGoto(p, label) == pc' = [pc EXCEPT ![p] = label]

RaceFinish(p, kind) ==
  /\ RaceGoto(p, "done")
  /\ result' = [result EXCEPT ![p] = [kind |-> kind]]

(* part_000 lines 9-32, then the route up to its first await: the upload, *)
(* query and stream routes read the request body; the clear route calls   *)
(* clearAll, whose clearDocuments awaits only when the store is bound     *)
(* (lines 648-655, 773, part_002 line 50)                                 *)
RaceStart(p) ==
  /\ pc[p] = "idle"
  /\ \E o \in RaceOps :
       LET fresh == sharedRAGService = 0
           i == IF fresh THEN Len(isInitialized) + 1 ELSE sharedRAGService
           Field(f, v) == IF fresh THEN Append(f, v) ELSE f
       IN  /\ op' = [op EXCEPT ![p] = o]
           /\ stack' = [stack EXCEPT ![p] = i]
           /\ IF o = "clear" /\ ~Field(vectorStore, FALSE)[i]
                THEN /\ vectorStore' = Field(vectorStore, FALSE)
                     /\ retrievalChain' =
                          [Field(retrievalChain, FALSE) EXCEPT ![i] = FALSE]
                     /\ actualVectorSize' =
                          [Field(actualVectorSize, Null) EXCEPT ![i] = Null]
                     /\ isInitialized' =
                          [Field(isInitialized, FALSE) EXCEPT ![i] = FALSE]
                     /\ sharedRAGService' = 0
                     /\ log' = Append(log, Call("clearAll", TRUE, i))
                     /\ RaceFinish(p, "cleared")
                ELSE /\ vectorStore' = Field(vectorStore, FALSE)
                     /\ retrievalChain' = Field(retrievalChain, FALSE)
                     /\ actualVectorSize' = Field(actualVectorSize, Null)
                     /\ isInitialized' = Field(isInitialized, FALSE)
                     /\ sharedRAGService' = i
                     /\ RaceGoto(p, IF o = "clear" THEN "clear_documents"
                                                  ELSE "initialize")
                     /\ UNCHANGED <<log, result>>
  /\ UNCHANGED <<embedDim, collection, arg, relevantDocs, err, pre, icPre>>

(* lines 689-692: the check of isInitialized, then the await of           *)
(* initializeCollection                                                   *)
RaceInitialize(p) ==
  /\ pc[p] = "initialize"
  /\ RaceGoto(p, IF isInitialized[stack[p]] THEN "work"
                                            ELSE "initialize_collection")
  /\ UNCHANGED <<envVars, collection, svcVars, op, stack, arg, relevantDocs,
                 err, log, pre, icPre, result>>

(* initializeCollection, lines 137-208, run for initialize (692-693) or   *)
(* for processText (251-253): the collection is kept when its width is    *)
(* the embedding width and created or recreated otherwise                 *)
RaceInitializeCollection(p) ==
  /\ pc[p] \in {"initialize_collection", "process_text"}
  /\ LET i == stack[p] IN
     \E ok \in BOOLEAN :
       /\ log' = Append(log, Call("initializeCollection", ok, i))
       /\ IF ok
            THEN /\ collection' =
                      IF /\ collection.exists
                         /\ ~DimensionMismatch(collection.size, embedDim)
                        THEN collection
                        ELSE createCollectionWithDimensions(embedDim)
                 /\ vectorStore' = [vectorStore EXCEPT ![i] = TRUE]
                 /\ actualVectorSize' = [actualVectorSize EXCEPT ![i] = embedDim]
                 /\ isInitialized' =
                      IF pc[p] = "initialize_collection"
                        THEN [isInitialized EXCEPT ![i] = TRUE]
                        ELSE isInitialized
                 /\ RaceGoto(p, IF pc[p] = "initialize_collection"
                                  THEN "work" ELSE "add_documents")
                 /\ UNCHANGED result
            ELSE /\ RaceFinish(p, "error")
                 /\ UNCHANGED <<collection, vectorStore, actualVectorSize,
                                isInitialized>>
  /\ UNCHANGED <<envVars, retrievalChain, op, stack, arg, relevantDocs, err,
                 pre, icPre>>

(* After initialize(): processText binds the store if it is unbound       *)
(* (251-253); askQuestion fails without a bound store and a retrieval     *)
(* chain (411-413) and reads otherwise                                    *)
RaceWork(p) ==
  /\ pc[p] = "work"
  /\ IF op[p] = "upload"
       THEN /\ RaceGoto(p, IF vectorStore[stack[p]] THEN "add_documents"
                                                    ELSE "process_text")
            /\ UNCHANGED result
       ELSE RaceFinish(p, IF /\ retrievalChain[stack[p]]
                             /\ vectorStore[stack[p]]
                            THEN "qa" ELSE "error")
  /\ UNCHANGED <<envVars, collection, svcVars, op, stack, arg, relevantDocs,
                 err, log, pre, icPre>>

(* lines 282 and 307 *)
RaceAddDocuments(p) ==
  /\ pc[p] = "add_documents"
  /\ IF CanStore(ChunksOf(arg))
       THEN /\ collection' = Stored(ChunksOf(arg))
            /\ retrievalChain' = [retrievalChain EXCEPT ![stack[p]] = TRUE]
            /\ RaceFinish(p, "upload")
       ELSE /\ RaceFinish(p, "error")
            /\ UNCHANGED <<collection, retrievalChain>>
  /\ UNCHANGED <<envVars, vectorStore, actualVectorSize, isInitialized, op,
                 stack, arg, relevantDocs, err, log, pre, icPre>>

(* clearDocuments with a bound store, lines 648-655, then line 773 and    *)
(* resetRAGService (part_002 line 50, part_000 line 36)                   *)
RaceClearDocuments(p) ==
  /\ pc[p] = "clear_documents"
  /\ LET i == stack[p] IN
     \E ok \in BOOLEAN :
       IF ok
         THEN /\ collection' = NoCollection
              /\ vectorStore' = [vectorStore EXCEPT ![i] = FALSE]
              /\ retrievalChain' = [retrievalChain EXCEPT ![i] = FALSE]
              /\ actualVectorSize' = [actualVectorSize EXCEPT ![i] = Null]
              /\ isInitialized' = [isInitialized EXCEPT ![i] = FALSE]
              /\ sharedRAGService' = 0
              /\ log' = Append(log, Call("clearAll", TRUE, i))
              /\ RaceFinish(p, "cleared")
         ELSE /\ RaceFinish(p, "http500")
              /\ UNCHANGED <<collection, sharedRAGService, svcVars, log>>
  /\ UNCHANGED <<embedDim, op, stack, arg, relevantDocs, err, pre, icPre>>

NextRace ==
  \E p \in Callers :
    \/ RaceStart(p)
    \/ RaceInitialize(p)
    \/ RaceInitializeCollection(p)
    \/ RaceWork(p)
    \/ RaceAddDocuments(p)
    \/ RaceClearDocuments(p)

SpecRace == InitRace /\ [][NextRace]_vars

----------------------------------------------------------------------------
(* Collection names.  In this specification the store holds collections   *)
(* by name: collection[n] is whether a collection named n exists, and log *)
(* lists the store calls of the deployment with the name each one was     *)
(* given.  The shared service passes this.collectionName, which           *)
(* getRAGService sets; DiagnosticRAGService passes its own field.         *)

MaxCalls == 3

(* part_000 line 16 *)
FixedCollectionName == "FINAL_RAG_COLLECTIONS"

(* part_001 line 10 *)
DiagnosticCollectionName == "rag_documents_collection"

CollectionNames == {FixedCollectionName, DiagnosticCollectionName}

InitNames ==
  /\ embedDim \in Widths
  /\ collection \in [CollectionNames -> BOOLEAN]
  /\ sharedRAGService = FALSE
  /\ vectorStore = FALSE
  /\ retrievalChain = FALSE
  /\ actualVectorSize = Null
  /\ isInitialized = FALSE
  /\ op = "none"
  /\ pc = "idle"
  /\ stack = <<>>
  /\ arg = "none"
  /\ relevantDocs = <<>>
  /\ err = <<>>
  /\ log = <<>>
  /\ pre = [afterInitialize |-> FALSE, afterHealing |-> FALSE]
  /\ icPre = NoCollection
  /\ result = [kind |-> "none"]

NamedCall(operation, call, name) ==
  /\ Len(log) < MaxCalls
  /\ op' = operation
  /\ log' = Append(log, Call(call, TRUE, name))

(* The store calls of the shared service: createCollection (line 227),    *)
(* the queries (213, 450, 550), getCollection (160, 625) and              *)
(* deleteCollection (174, 183, 189, 649) all pass this.collectionName     *)
SharedServiceCall ==
  /\ \E call \in {"createCollection", "query", "getCollection",
                   "deleteCollection"} :
       /\ NamedCall("shared", call, FixedCollectionName)
       /\ collection' =
            CASE call = "createCollection" ->
                   [collection EXCEPT ![FixedCollectionName] = TRUE]
              [] call = "deleteCollection" ->
                   [collection EXCEPT ![FixedCollectionName] = FALSE]
              [] OTHER -> collection
  /\ sharedRAGService' = TRUE
  /\ UNCHANGED <<embedDim, svcVars, pc, stack, arg, relevantDocs, err, pre,
                 icPre, result>>

(* part_001 lines 42-54: diagnose finds its collection in the list and    *)
(* reads it, both with this.collectionName                                *)
diagnose ==
  /\ NamedCall("diagnose", "getCollection", DiagnosticCollectionName)
  /\ result' = [kind |-> "diagnose",
                collectionExists |-> collection[DiagnosticCollectionName]]
  /\ UNCHANGED <<envVars, collection, svcVars, pc, stack, arg, relevantDocs,
                 err, pre, icPre>>

(* part_001 lines 99-107 *)
forceDeleteCollection ==
  /\ NamedCall("forceDeleteCollection", "deleteCollection",
               DiagnosticCollectionName)
  /\ collection' = [collection EXCEPT ![DiagnosticCollectionName] = FALSE]
  /\ result' = [kind |-> "forceDeleted"]
  /\ UNCHANGED <<envVars, svcVars, pc, stack, arg, relevantDocs, err, pre,
                 icPre>>

NextNames == SharedServiceCall \/ diagnose \/ forceDeleteCollection

SpecNames == InitNames /\ [][NextNames]_vars

----------------------------------------------------------------------------
(* The page's stream handler (page.tsx, handleStreamQuery) reading the    *)
(* bytes of the event stream (route.ts lines 29-34).  A text is a tuple   *)
(* of characters, the wire a tuple of bytes: an ASCII character is one    *)
(* byte, written as the character, and the letter e-acute is the two      *)
(* bytes 0xC3 0xA9.  arg is the list of chunks the server sent, and       *)
(* result holds the bytes not yet read and the variables of the handler.  *)

Accented == "e-acute"
Replacement == "U+FFFD"

(* The chunks of the model: an ASCII text and a text of one two-byte      *)
(* character                                                              *)
SentTexts == {<<"a">>, <<Accented>>}

(* JSON.stringify of an event, route.ts lines 30 and 34; the texts of the *)
(* model need no escaping                                                 *)
JsonStringify(event) ==
  IF event.type = "chunk"
    THEN <<"{", "\"", "c", "h", "u", "n", "k", "\"", ":", "\"">>
         \o event.chunk \o <<"\"", "}">>
    ELSE <<"{", "\"", "d", "o", "n", "e", "\"", ":", "t", "r", "u", "e", "}">>

DataPrefix == <<"d", "a", "t", "a", ":", " ">>

(* `data: ${...}\n\n` *)
Framed(event) == DataPrefix \o JsonStringify(event) \o <<"\n", "\n">>

(* TextEncoder.encode: UTF-8 *)
Utf8Encode(text) ==
  LET width(i) == IF text[i] = Accented THEN 2 ELSE 1
      start(i) == i + Cardinality({k \in 1..(i - 1) : text[k] = Accented})
      length == Len(text)
                + Cardinality({k \in 1..Len(text) : text[k] = Accented})
  IN  [j \in 1..length |->
         LET i == CHOOSE k \in 1..Len(text) :
                    start(k) <= j /\ j < start(k) + width(k)
         IN  IF text[i] # Accented THEN text[i]
             ELSE IF j = start(i) THEN "0xC3" ELSE "0xA9"]

(* decoder.decode(value), page.tsx line 607, without {stream: true}: a    *)
(* lead byte without its continuation and a continuation byte without its *)
(* lead each decode to U+FFFD                                             *)
Utf8Decode(bytes) ==
  LET whole(i) ==
        bytes[i] = "0xC3" /\ i < Len(bytes) /\ bytes[i + 1] = "0xA9"
      decoded ==
        [i \in 1..Len(bytes) |->
           IF whole(i) THEN Accented
           ELSE IF i > 1 /\ whole(i - 1) THEN ""
           ELSE IF bytes[i] \in {"0xC3", "0xA9"} THEN Replacement
           ELSE bytes[i]]
  IN  SelectSeq(decoded, LAMBDA c : c # "")

(* route.ts lines 29-34: the bytes enqueued for a list of chunks that     *)
(* ended normally                                                         *)
RECURSIVE Wire(_)
Wire(chunks) ==
  IF chunks = <<>> THEN Utf8Encode(Framed(DoneEvent))
  ELSE Utf8Encode(Framed(ChunkEvent(Head(chunks)))) \o Wire(Tail(chunks))

(* chunk.split('\n'), page.tsx line 608 *)
SplitLines(text) ==
  LET breaks == {i \in 1..Len(text) : text[i] = "\n"}
      break(k) ==
        IF k = 0 THEN 0
        ELSE IF k > Cardinality(breaks) THEN Len(text) + 1
        ELSE CHOOSE i \in breaks : Cardinality({j \in breaks : j < i}) = k - 1
  IN  [k \in 1..(Cardinality(breaks) + 1) |->
         SubSeq(text, break(k - 1) + 1, break(k) - 1)]

(* line.startsWith('data: ') *)
StartsWith(line, prefix) ==
  /\ Len(line) >= Len(prefix)
  /\ SubSeq(line, 1, Len(prefix)) = prefix

SyntaxError == [type |-> "SyntaxError"]

(* JSON.parse(line.slice(6)), page.tsx line 613.  What follows "data: "   *)
(* in a line of this wire is the JSON text of one event or a part of it,  *)
(* possibly with replacement characters; only the whole text of an event  *)
(* parses                                                                 *)
JsonParse(text) ==
  LET events == {DoneEvent} \cup {ChunkEvent(t) : t \in SentTexts}
  IN  IF \E e \in events : JsonStringify(e) = text
        THEN CHOOSE e \in events : JsonStringify(e) = text
        ELSE SyntaxError

(* page.tsx lines 610-644: the loop over the lines of one read *)
RECURSIVE HandleLines(_, _)
HandleLines(lines, handler) ==
  IF lines = <<>> \/ handler.returned THEN handler
  ELSE LET line == Head(lines)
           data == JsonParse(SubSeq(line, Len(DataPrefix) + 1, Len(line)))
       IN  HandleLines(Tail(lines),
             IF ~StartsWith(line, DataPrefix) \/ data = SyntaxError
               THEN handler
             ELSE IF data.type = "chunk" /\ data.chunk # <<>>
               THEN [handler EXCEPT !.fullAnswer = @ \o data.chunk]
             ELSE [handler EXCEPT !.answer = handler.fullAnswer,
                                  !.returned = TRUE])

InitClient ==
  /\ embedDim \in Widths
  /\ collection = NoCollection
  /\ sharedRAGService = FALSE
  /\ vectorStore = FALSE
  /\ retrievalChain = FALSE
  /\ actualVectorSize = Null
  /\ isInitialized = FALSE
  /\ op = "handleStreamQuery"
  /\ pc = "read"
  /\ stack = <<>>
  /\ arg \in SeqUpTo(SentTexts, MaxFragments)
  /\ relevantDocs = <<>>
  /\ err = <<>>
  /\ log = <<>>
  /\ pre = [afterInitialize |-> FALSE, afterHealing |-> FALSE]
  /\ icPre = NoCollection
  /\ result = [kind |-> "client", wire |-> Wire(arg), fullAnswer |-> <<>>,
               answer |-> <<>>, returned |-> FALSE]

(* page.tsx lines 602-608: reader.read() resolves with the next bytes,    *)
(* however many the network delivered                                     *)
ClientRead ==
  /\ pc = "read"
  /\ result.wire # <<>>
  /\ \E n \in 1..Len(result.wire) :
       LET value == SubSeq(result.wire, 1, n)
           handler == HandleLines(SplitLines(Utf8Decode(value)), result)
       IN  /\ result' = [handler EXCEPT
                           !.wire = SubSeq(result.wire, n + 1, Len(result.wire))]
           /\ pc' = IF handler.returned THEN "done" ELSE "read"
  /\ UNCHANGED <<envVars, collection, svcVars, op, stack, arg, relevantDocs,
                 err, log, pre, icPre>>

(* page.tsx line 605: the stream ended *)
ClientEnd ==
  /\ pc = "read"
  /\ result.wire = <<>>
  /\ pc' = "done"
  /\ UNCHANGED <<envVars, collection, svcVars, op, stack, arg, relevantDocs,
                 err, log, pre, icPre, result>>

NextClient == ClientRead \/ ClientEnd

SpecClient == InitClient /\ [][NextClient]_vars

----------------------------------------------------------------------------
(* Properties                                                             *)

Done(name) == op = name /\ pc = "done"

Last(seq) == seq[Len(seq)]

ServiceState == <<vectorStore, retrievalChain, actualVectorSize, isInitialized>>
ServiceStateOf(snapshot) ==
  <<snapshot.vectorStore, snapshot.retrievalChain, snapshot.actualVectorSize,
    snapshot.isInitialized>>

(* The state in which initializeCollection has just returned to its caller *)
InitializeCollectionReturned ==
  /\ pc \in {"initialize_ok", "pt_check", "pt_retry"}
  /\ Logged("clusterStatus")

(* The state in which initializeCollection has just thrown to its caller *)
InitializeCollectionThrew ==
  /\ pc \in {"initialize_throw", "pt_catch"}
  /\ Len(err) > 0
  /\ err[1] = MsgInitFailed

TierCalls == {"similaritySearch", "retrieverInvoke", "embedQuery", "directQuery"}
GenerationCalls == {"chainInvoke", "llmInvoke", "llmStream"}

NoTierInvoked == \A name \in TierCalls : ~Logged(name)
NoGenerationInvoked == \A name \in GenerationCalls : ~Logged(name)

(* C1: an initialize() that follows an initialize() that returned (no     *)
(* clear in between) returns, issues no embedding probe and no collection *)
(* create or delete, and leaves the pipeline state (initialized) and the  *)
(* collection as the first call left them.                                *)
C1_InitializeIdempotent ==
  (Done("initialize") /\ pre.afterInitialize) =>
    /\ result.kind = "void"
    /\ ~Logged("embedProbe")
    /\ ~Logged("createCollection")
    /\ ~Logged("deleteCollection")
    /\ ServiceState = ServiceStateOf(pre)
    /\ collection = pre.collection
    /\ isInitialized

C1_Witness == Done("initialize") /\ pre.afterInitialize

(* C2: when initializeCollection was entered with a collection whose      *)
(* width differs from the embedding width and returns, the collection has *)
(* the embedding width and no points; and a stats call that follows such  *)
(* an initialize() reports vectorDimensions equal to the embedding width. *)
C2_DimensionSelfHealing ==
  /\ (InitializeCollectionReturned /\ icPre.exists /\ icPre.size # embedDim) =>
       /\ collection.exists
       /\ collection.size = embedDim
       /\ collection.points = <<>>
       /\ \A ok \in GetCollectionOutcomes :
            getCollectionStats(ok).vectorDimensions = embedDim
  /\ (Done("stats") /\ pre.afterHealing) =>
       /\ result.kind = "stats"
       /\ result.stats.vectorDimensions = embedDim

C2_Witness ==
  /\ Done("stats")
  /\ pre.afterHealing
  /\ embedDim # DefaultDimensions
  /\ Len(pre.collection.points) = 0
  /\ LoggedOk("getCollection")

(* C3 as claimed: initializeCollection throws only when the health check  *)
(* or the embedding probe failed.                                         *)
C3_FailsOnlyOnHealthOrProbe ==
  InitializeCollectionThrew =>
    \/ LoggedFail("clusterStatus")
    \/ LoggedFail("embedProbe")

(* C3 amended: initializeCollection throws only when the health check     *)
(* failed, the embedding probe failed, listing the collections raised, or *)
(* the last delete or create it issued raised; and whatever the prior     *)
(* state of the collection (absent, other width, unreadable, not          *)
(* queryable), when it returns the collection exists with the embedding   *)
(* width and the vector store is bound.                                   *)
C3_FailsOnlyOnUnrecoveredCall ==
  /\ InitializeCollectionThrew =>
       \/ LoggedFail("clusterStatus")
       \/ LoggedFail("embedProbe")
       \/ LoggedFail("getCollections")
       \/ /\ Last(log).call \in {"deleteCollection", "createCollection"}
          /\ ~Last(log).ok
  /\ InitializeCollectionReturned =>
       /\ collection.exists
       /\ collection.size = embedDim
       /\ vectorStore
       /\ actualVectorSize = embedDim

(* the collection was unreadable and initialization still completed, at a *)
(* width that is not the default                                          *)
C3_Witness ==
  /\ InitializeCollectionReturned
  /\ icPre.exists
  /\ LoggedFail("getCollection")
  /\ embedDim # DefaultDimensions
  /\ pc = "initialize_ok"

TierLabels == {"ask_similarity", "ask_retriever", "ask_embed", "ask_direct",
               "str_similarity", "str_retriever", "str_embed", "str_direct"}

(* C4: whenever a retrieval tier of a batch or streaming query is about   *)
(* to query the collection, the collection exists and its configured      *)
(* width is the embedding model's output width.                           *)
C4_WidthInvariant ==
  pc \in TierLabels =>
    /\ collection.exists
    /\ collection.size = embedDim

C4_Witness ==
  /\ pc = "str_direct"
  /\ embedDim # DefaultDimensions
  /\ icPre.exists
  /\ icPre.size # embedDim

(* what tier 3 must hand back for the points the store returned *)
ExpectedDocuments(points) ==
  [i \in 1..Len(points) |-> IF points[i] = NoPayload THEN "" ELSE points[i]]

ReturnedBy(name) == log[CHOOSE i \in 1..Len(log) : log[i].call = name].ret

(* C5: in a batch or streaming query the raw retriever is called only     *)
(* after the similarity search raised, the direct query (embedding the    *)
(* question, then querying the store) only after the raw retriever raised *)
(* too; a tier that returns, even with no documents, is the last tier     *)
(* called; each tier is called at most once; and when tiers 1 and 2       *)
(* raised and tier 3 returned, the documents of the result are the        *)
(* documents of the points tier 3 returned, in the same order.            *)
C5_FallbackOrdering ==
  /\ Logged("retrieverInvoke") => LoggedFail("similaritySearch")
  /\ Logged("embedQuery") => LoggedFail("retrieverInvoke")
  /\ Logged("directQuery") =>
       LoggedFail("retrieverInvoke") /\ LoggedOk("embedQuery")
  /\ LoggedOk("similaritySearch") =>
       \A name \in TierCalls \ {"similaritySearch"} : ~Logged(name)
  /\ LoggedOk("retrieverInvoke") =>
       ~Logged("embedQuery") /\ ~Logged("directQuery")
  /\ \A name \in TierCalls : CountCalls(name) <= 1
  /\ LoggedOk("directQuery") =>
       /\ relevantDocs = ExpectedDocuments(ReturnedBy("directQuery"))
       /\ (Done("query") /\ result.kind = "qa") =>
             result.sources = ExpectedDocuments(ReturnedBy("directQuery"))
       /\ (Done("stream") /\ result.kind = "stream") =>
             result.context = ExpectedDocuments(ReturnedBy("directQuery"))

C5_Witness ==
  /\ Done("query")
  /\ LoggedFail("similaritySearch")
  /\ LoggedFail("retrieverInvoke")
  /\ LoggedOk("directQuery")
  /\ result.kind = "qa"
  /\ Len(result.sources) = 2
  /\ result.sources[1] # result.sources[2]

AllTiersFailed ==
  /\ LoggedFail("similaritySearch")
  /\ LoggedFail("retrieverInvoke")
  /\ LoggedFail("embedQuery") \/ LoggedFail("directQuery")

Tier3Error == IF LoggedFail("embedQuery") THEN EmbedError ELSE StoreError

(* C6: a completed batch or streaming query in which all three tiers      *)
(* raised returns an error that names the exhausted retrieval and ends    *)
(* with the tier-3 error; and when a tier raised but not all of them, an  *)
(* error result can only come from the generation call.                   *)
C6_RetrievalExhaustedError ==
  (pc = "done" /\ op \in {"query", "stream"}) =>
    /\ AllTiersFailed =>
         /\ result.kind = "error"
         /\ \E i \in 1..Len(result.error) :
              /\ result.error[i] = MsgAllRetrievalFailed
              /\ SubSeq(result.error, i + 1, Len(result.error)) = Tier3Error
    /\ (LoggedFail("similaritySearch") /\ ~AllTiersFailed
          /\ result.kind = "error") =>
         LoggedFail("llmInvoke") \/ LoggedFail("llmStream")

(* a batch query that found the collection holding zero points *)
QueriedEmptyCollection ==
  /\ Done("query")
  /\ result.kind # "http400"
  /\ collection.exists
  /\ collection.points = <<>>

ReadyBefore ==
  /\ pre.sharedRAGService
  /\ pre.isInitialized
  /\ pre.vectorStore
  /\ pre.retrievalChain

C8_EmptyOnlyWhenConfirmed ==
  (/\ Done("query")
   /\ result.kind = "error"
   /\ \E i \in 1..Len(result.error) : result.error[i] = MsgNoDocsFound) =>
    /\ LoggedOk("getCollection")
    /\ collection.exists
    /\ collection.points = <<>>

RetrievedNothing ==
  \E i \in 1..Len(log) :
     /\ log[i].call \in {"similaritySearch", "retrieverInvoke", "directQuery"}
     /\ log[i].ok
     /\ log[i].ret = <<>>

(* C9: in a batch query, once a tier has returned zero documents no       *)
(* generation call (chain or plain) is ever made, and the query returns   *)
(* the QAResult with the fixed no-relevant-documents answer, no sources,  *)
(* confidence 0, generationTime 0 and chunksUsed 0.                       *)
C9_NoDocumentsResult ==
  (op = "query" /\ RetrievedNothing) =>
    /\ NoGenerationInvoked
    /\ pc = "done"
    /\ result.kind = "qa"
    /\ result.answer = MsgNoRelevant
    /\ result.sources = <<>>
    /\ IsZero(result.confidence)
    /\ result.metadata.generationTime = 0
    /\ result.metadata.chunksUsed = 0

C9_Witness ==
  /\ Done("query")
  /\ RetrievedNothing
  /\ result.metadata.retrievalTime > 0
  /\ LoggedFail("similaritySearch")

RetrievedSomething ==
  \E i \in 1..Len(log) :
     /\ log[i].call \in {"similaritySearch", "retrieverInvoke", "directQuery"}
     /\ log[i].ok
     /\ log[i].ret # <<>>

(* C10: in a batch query the chain is invoked only with at least one      *)
(* retrieved document and is the first generation call; the plain         *)
(* generation call is made only after the chain raised, and then exactly  *)
(* once; a chain that returns gives the answer without a plain call; and  *)
(* when the plain call raises too the query returns an error.             *)
C10_GenerationOrder ==
  op = "query" =>
    /\ Logged("chainInvoke") => Len(relevantDocs) >= 1
    /\ CountCalls("chainInvoke") <= 1
    /\ CountCalls("llmInvoke") <= 1
    /\ Logged("llmInvoke") =>
         /\ LoggedFail("chainInvoke")
         /\ Last(log).call = "llmInvoke"
         /\ log[Len(log) - 1].call = "chainInvoke"
    /\ pc = "done" =>
         /\ RetrievedSomething => Logged("chainInvoke")
         /\ LoggedOk("chainInvoke") =>
              /\ ~Logged("llmInvoke")
              /\ result.kind = "qa"
              /\ result.answer = "chain answer"
         /\ LoggedFail("chainInvoke") => CountCalls("llmInvoke") = 1
         /\ LoggedOk("llmInvoke") =>
              /\ result.kind = "qa"
              /\ result.answer = "manual answer"
         /\ LoggedFail("llmInvoke") => result.kind = "error"

C10_Witness ==
  /\ Done("query")
  /\ LoggedFail("chainInvoke")
  /\ LoggedFail("llmInvoke")
  /\ result.kind = "error"

----------------------------------------------------------------------------
(* Confidence *)

Scored == op = "score" /\ pc = "done"

InUnitInterval(x) == ~x.nan /\ 0 <= x.num /\ x.num <= x.den

(* a > b; a comparison with NaN is false *)
Greater(a, b) == ~a.nan /\ ~b.nan /\ a.num * b.den > b.num * a.den

(* C11: for every question and every list of chunks the confidence c      *)
(* satisfies 0 <= c <= 1, and it is exactly 0 for the empty list.         *)
C11_ConfidenceBounds ==
  Scored =>
    /\ InUnitInterval(result.confidence)
    /\ relevantDocs = <<>> => IsZero(result.confidence)

(* The words of a question: its non-empty space-separated tokens *)
WordsOf(question) ==
  {Word(TextOf(question), w) :
     w \in {x \in SplitWords(TextOf(question)) : x.to >= x.from}}

ContainsVerbatim(question, chunk) == Includes(TextOf(chunk), TextOf(question))

Unrelated(question, chunk) ==
  /\ ~Includes(ToLower(TextOf(chunk)), ToLower(TextOf(question)))
  /\ \A w \in WordsOf(question) : ~Includes(ToLower(TextOf(chunk)), ToLower(w))

(* C12: a single chunk that contains the question verbatim scores         *)
(* strictly higher than a single chunk of equal length that contains      *)
(* neither the question nor any of its words.                             *)
C12_VerbatimScoresHigher ==
  (/\ Scored
   /\ Len(relevantDocs) = 1
   /\ ContainsVerbatim(arg, relevantDocs[1])) =>
    \A u \in ScoreContents :
       (/\ Len(TextOf(u)) = Len(TextOf(relevantDocs[1]))
        /\ Unrelated(arg, u)) =>
         Greater(result.confidence, calculateConfidence(arg, <<u>>))

(* The end-to-end scenario: the collection holds exactly the one chunk of *)
(* the Paris text, the Paris question was asked, and retrieval returned   *)
(* documents to a query that produced a QAResult.                         *)
ParisScenario ==
  /\ Done("query")
  /\ arg = "q1"
  /\ collection.exists
  /\ collection.points = <<"c1">>
  /\ result.kind = "qa"
  /\ result.sources # <<>>

(* C13 as claimed: in the scenario the sources include the chunk, the     *)
(* confidence is greater than 0.4 and chunksUsed is at least 1.           *)
C13_ParisConfidenceAboveThreshold ==
  ParisScenario =>
    /\ \E i \in 1..Len(result.sources) : result.sources[i] = "c1"
    /\ Greater(result.confidence, Frac(4, 10))
    /\ result.metadata.chunksUsed >= 1

(* C13 as amended: in the scenario the sources are exactly the chunk,     *)
(* chunksUsed is 1 and the confidence is 0.1: the question is not a       *)
(* substring of the chunk and one of its three words longer than three    *)
(* characters ("capital") occurs in it.                                   *)
C13_ParisConfidence ==
  ParisScenario =>
    /\ result.sources = <<"c1">>
    /\ result.metadata.chunksUsed = 1
    /\ ~result.confidence.nan
    /\ result.confidence.num * 10 = result.confidence.den
    /\ Greater(result.confidence, Zero)
    /\ ~Greater(result.confidence, Frac(4, 10))

C13_Witness ==
  /\ ParisScenario
  /\ result.sources = <<"c1">>
  /\ LoggedOk("similaritySearch")
  /\ result.confidence = Frac(3, 30)

----------------------------------------------------------------------------
(* Streaming *)

StreamResult == op = "stream" /\ pc = "done" /\ result.kind = "stream"

DoneSent(r) == \E i \in 1..Len(r.events) : r.events[i] = DoneEvent

(* The texts of the chunk events, in the order they were enqueued *)
ChunkTexts(events) ==
  LET texts[k \in 0..Len(events)] ==
        IF k = 0 THEN <<>>
        ELSE IF events[k].type = "chunk"
               THEN Append(texts[k - 1], events[k].chunk)
               ELSE texts[k - 1]
  IN  texts[Len(events)]

Concat(texts) ==
  LET joined[k \in 0..Len(texts)] ==
        IF k = 0 THEN <<>> ELSE joined[k - 1] \o texts[k]
  IN  joined[Len(texts)]

StringForms(fragments) == [i \in 1..Len(fragments) |-> StringOf(fragments[i])]

CompletedNormally(r) == ~r.pulling /\ ~r.cancelled /\ r.state = "closed"

(* C14: every event of a response body is a chunk event carrying a string *)
(* or the done event; the done event comes last and at most once, only    *)
(* when the generation stream has ended and each of its non-empty chunks  *)
(* has been enqueued, and the stream is closed with it; a body that       *)
(* completes normally ends with the done event.                           *)
C14_WireProtocol ==
  StreamResult =>
    LET r == result
        n == Len(r.events)
    IN  /\ \A i \in 1..n :
             \/ r.events[i] = DoneEvent
             \/ /\ r.events[i].type = "chunk"
                /\ r.events[i] = ChunkEvent(r.events[i].chunk)
        /\ \A i \in 1..n : r.events[i] = DoneEvent => i = n
        /\ DoneSent(r) =>
             /\ ~r.pulling
             /\ r.state = "closed"
             /\ n - 1 = Cardinality({i \in 1..Len(r.produced) :
                                       Truthy(r.produced[i])})
        /\ CompletedNormally(r) => DoneSent(r)

C14_Witness ==
  /\ StreamResult
  /\ CompletedNormally(result)
  /\ Len(result.events) = 3
  /\ result.events[3] = DoneEvent

(* C15: when the done event has been sent, the concatenation of the texts *)
(* of the chunk events equals the concatenation of the string forms of    *)
(* the chunks the generation stream delivered, in order.                  *)
C15_StreamingCompleteness ==
  (StreamResult /\ DoneSent(result)) =>
    Concat(ChunkTexts(result.events)) = Concat(StringForms(result.produced))

C15_Witness ==
  /\ StreamResult
  /\ DoneSent(result)
  /\ Len(result.produced) = 2
  /\ result.produced[1].type = "array"
  /\ result.produced[2] = [type |-> "string", text |-> <<"a">>]

(* A streaming query that failed: before the Response (the service        *)
(* returned an error), or while the body was produced                     *)
FailedBeforeBody == op = "stream" /\ pc = "done" /\ result.kind = "error"
FailedInBody == StreamResult /\ LoggedFail("streamNext")

(* C16 as claimed: a streaming query that failed has put a terminal error *)
(* on the event channel, which is no longer open.                         *)
C16_ErrorOverEventChannel ==
  (FailedBeforeBody \/ (FailedInBody /\ ~result.cancelled)) =>
    /\ result.kind = "stream"
    /\ result.state = "errored"

(* C16 as amended: a failure before the body (initialization, exhausted   *)
(* retrieval, start of generation) is answered with the error text and no *)
(* event stream; a failure while the body is produced puts the stream in  *)
(* the errored state, after the chunk events already sent and without a   *)
(* done event; and a body that is no longer produced is never readable.   *)
C16_StreamFailureTerminates ==
  (op = "stream" /\ pc = "done") =>
    /\ (\/ LoggedFail("llmStream")
        \/ AllTiersFailed
        \/ (Logged("clusterStatus") /\ ~vectorStore)) => FailedBeforeBody
    /\ FailedBeforeBody =>
         /\ Len(result.error) >= 2
         /\ result.error[1] = MsgStreamError
    /\ (FailedInBody /\ ~result.cancelled) =>
         /\ result.state = "errored"
         /\ ~result.pulling
         /\ ~DoneSent(result)
    /\ (result.kind = "stream" /\ ~result.pulling) =>
         result.state \in {"closed", "errored"}

C16_Witness ==
  /\ FailedInBody
  /\ ~result.cancelled
  /\ Len(result.events) = 1
  /\ result.state = "errored"

(* C17: once the consumer has cancelled, a chunk that arrives from the    *)
(* generation stream is the last one taken from it: the producer stops    *)
(* and the generation stream is released.                                 *)
C17_CancelReleasesGeneration ==
  [][(/\ StreamResult
      /\ result.cancelled
      /\ result'.kind = "stream"
      /\ Len(result'.produced) > Len(result.produced)) =>
        (~result'.pulling /\ result'.released)]_vars

----------------------------------------------------------------------------
(* Stats, clear, empty input *)

ZeroNotReady(stats) ==
  /\ stats.totalPoints = 0
  /\ stats.vectorsCount = 0
  /\ stats.isReady = FALSE

(* C18: a stats request always returns a stats value, whatever the        *)
(* pipeline state; when the service is not initialized, or the read of    *)
(* the collection fails, the value has totalPoints 0, vectorsCount 0 and  *)
(* isReady false.                                                         *)
C18_StatsNeverRaises ==
  Done("stats") =>
    /\ result.kind = "stats"
    /\ ~isInitialized => (~Logged("getCollection") /\ ZeroNotReady(result.stats))
    /\ LoggedFail("getCollection") => ZeroNotReady(result.stats)

C18_Witness ==
  /\ Done("stats")
  /\ LoggedFail("getCollection")
  /\ retrievalChain
  /\ collection.exists
  /\ Len(collection.points) >= 1

(* C19: after a clear request that succeeded the collection does not      *)
(* exist and the pipeline is uninitialized: no vector-store binding, no   *)
(* retrieval chain, no cached width, not initialized.                     *)
C19_ClearDeletesCollection ==
  (Done("clear") /\ result.kind = "cleared") =>
    /\ ~collection.exists
    /\ ~vectorStore
    /\ ~retrievalChain
    /\ actualVectorSize = Null
    /\ ~isInitialized

ReconciliationCalls ==
  {"embedProbe", "createCollection", "deleteCollection", "addDocuments"}

(* C20: an upload whose text is empty or blank fails with the empty-input *)
(* error, having issued no embedding probe, no collection create or       *)
(* delete and no upsert, and leaves the collection and the pipeline state *)
(* as they were.                                                          *)
C20_EmptyInputFirst ==
  (/\ Done("upload")
   /\ RouteAcceptsFile(arg)
   /\ IsBlank(arg.text)
   /\ ~LoggedFail("pdfParse")) =>
    /\ result.kind = "upload"
    /\ ~result.success
    /\ Last(result.message) \in {MsgNoText, MsgNoPdfText}
    /\ \A name \in ReconciliationCalls : ~Logged(name)
    /\ collection = pre.collection
    /\ ServiceState = ServiceStateOf(pre)

----------------------------------------------------------------------------
(* Ingestion *)

(* The positions of the upsert attempts in the call log *)
AddAttempts == {i \in 1..Len(log) : log[i].call = "addDocuments"}

FirstAttempt == CHOOSE i \in AddAttempts : \A j \in AddAttempts : i <= j
SecondAttempt == CHOOSE i \in AddAttempts : \A j \in AddAttempts : j <= i

UploadFailedWith(e) ==
  /\ result.kind = "upload"
  /\ ~result.success
  /\ result.message[1] = MsgProcessFileError
  /\ Len(result.message) >= 3
  /\ result.message[Len(result.message) - 1] = MsgProcessTextFailed
  /\ Last(result.message) = e[1]

(* C21: within one upload the upsert is attempted at most twice; a second *)
(* attempt follows only a first attempt that raised a dimension error;    *)
(* a first attempt that raised another error is the last call of the      *)
(* upload, which fails with that error; and a second attempt that raised  *)
(* is the last call of the upload, which fails with its error.            *)
C21_RetryBound ==
  op = "upload" =>
    /\ Cardinality(AddAttempts) <= 2
    /\ Cardinality(AddAttempts) = 2 =>
         /\ ~log[FirstAttempt].ok
         /\ log[FirstAttempt].ret = DimensionError
    /\ (/\ AddAttempts # {}
        /\ ~log[FirstAttempt].ok
        /\ log[FirstAttempt].ret # DimensionError) =>
         /\ FirstAttempt = Len(log)
         /\ pc = "done" => UploadFailedWith(log[FirstAttempt].ret)
    /\ (Cardinality(AddAttempts) = 2 /\ ~log[SecondAttempt].ok) =>
         /\ SecondAttempt = Len(log)
         /\ pc = "done" => UploadFailedWith(log[SecondAttempt].ret)

C21_Witness ==
  /\ Done("upload")
  /\ Cardinality(AddAttempts) = 2
  /\ ~log[SecondAttempt].ok
  /\ UploadFailedWith(StoreError)

(* The points a store state holds: none when the collection is absent *)
Held(c) == IF c.exists THEN c.points ELSE <<>>

OtherMimeType == arg.type \notin {"application/pdf", "text/plain"}

UploadRejected ==
  \/ result.kind = "http400"
  \/ result.kind = "upload" /\ ~result.success

----------------------------------------------------------------------------
(* Service boundary *)

(* A failure value: the method's prefix followed by the cause *)
FailureValue(message, prefix) == Len(message) >= 2 /\ message[1] = prefix

(* C23: queryDocument, uploadAndProcess and streamQuery return and never  *)
(* raise: a request that reached the service ends with a result value or  *)
(* with a failure value {error} / {success: false, message} that carries  *)
(* the cause, also when initialization, retrieval, generation or          *)
(* ingestion failed.                                                      *)
C23_ServiceBoundary ==
  pc = "done" =>
    /\ op = "query" =>
         \/ result.kind \in {"qa", "http400"}
         \/ result.kind = "error" /\ FailureValue(result.error, MsgQueryError)
    /\ op = "stream" =>
         \/ result.kind \in {"stream", "http400"}
         \/ result.kind = "error" /\ FailureValue(result.error, MsgStreamError)
    /\ op = "upload" =>
         \/ result.kind = "http400"
         \/ /\ result.kind = "upload"
            /\ ~result.success => FailureValue(result.message, MsgProcessFileError)

C23_Witness ==
  /\ Done("query")
  /\ pre.isInitialized
  /\ LoggedFail("llmInvoke")
  /\ result.kind = "error"
  /\ result.error = <<MsgQueryError, MsgAnswerFailed>> \o LlmError

----------------------------------------------------------------------------
(* Concurrency *)

InFlight(p) == pc[p] \notin {"idle", "done"}

(* The callers running initializeCollection on instance i *)
Initializing(i) ==
  {p \in Callers : /\ stack[p] = i
                   /\ pc[p] \in {"initialize_collection", "process_text"}}

(* The runs of initializeCollection on instance i that succeeded since    *)
(* the last clear of i                                                    *)
InitializedSinceClear(i) ==
  {k \in 1..Len(log) :
     /\ log[k] = Call("initializeCollection", TRUE, i)
     /\ \A j \in k..Len(log) : log[j] # Call("clearAll", TRUE, i)}

(* C24: on one service instance, between clears, at most one run of       *)
(* initializeCollection is in progress or has succeeded, whatever the     *)
(* interleaving of the callers.                                           *)
C24_InitializedOnce ==
  \A i \in 1..Len(isInitialized) :
    Cardinality(Initializing(i)) + Cardinality(InitializedSinceClear(i)) <= 1

(* The instances that requests in flight hold *)
Operating == {stack[p] : p \in {q \in Callers : InFlight(q)}}

(* C25: all requests in flight, clears included, operate on the same      *)
(* service instance.                                                      *)
C25_OnePipelineState == Cardinality(Operating) <= 1

----------------------------------------------------------------------------
(* Frame of the queries *)

(* C26: from the start of a batch or streaming query on an initialized    *)
(* service to its end, and for a streaming query while and after its      *)
(* fragments are delivered (completed, failed or cancelled), the vector-  *)
(* store binding, the retrieval chain, the cached width, isInitialized    *)
(* and the collection with its points are what they were at the start.    *)
C26_QueriesReadOnly ==
  (/\ op \in {"query", "stream"}
   /\ pre.sharedRAGService
   /\ pre.isInitialized) =>
    /\ ServiceState = ServiceStateOf(pre)
    /\ collection = pre.collection

C26_Witness ==
  /\ Done("query")
  /\ pre.sharedRAGService
  /\ pre.isInitialized
  /\ pre.vectorStore
  /\ result.kind = "qa"
  /\ result.sources # <<>>
  /\ Held(collection) # <<>>

----------------------------------------------------------------------------
(* Repair cycle *)

(* The successful calls of `name` issued after the first upsert attempt *)
RepairCalls(name) ==
  {i \in 1..Len(log) : /\ i > FirstAttempt
                       /\ log[i].call = name
                       /\ log[i].ok}

(* C28: when the repair after a dimension error of the first upsert has   *)
(* returned and the retry is about to be issued, the cached width was     *)
(* cleared and probed again, and the collection was deleted and created   *)
(* again: it has the probed width and no points.                          *)
C28_RepairRecreatesCollection ==
  (op = "upload" /\ pc = "pt_retry") =>
    /\ log[FirstAttempt].ret = DimensionError
    /\ RepairCalls("embedProbe") # {}
    /\ actualVectorSize = embedDim
    /\ RepairCalls("deleteCollection") # {}
    /\ RepairCalls("createCollection") # {}
    /\ collection = createCollectionWithDimensions(embedDim)

----------------------------------------------------------------------------
(* Confidence formula *)

Whitespace == {" ", "\t", "\n"}

(* The tokens of a text between the characters of `separators`, as index  *)
(* pairs                                                                  *)
Tokens(text, separators) ==
  {w \in [from : 1..Len(text), to : 1..Len(text)] :
     /\ w.from <= w.to
     /\ \A i \in w.from..w.to : text[i] \notin separators
     /\ w.from = 1 \/ text[w.from - 1] \in separators
     /\ w.to = Len(text) \/ text[w.to + 1] \in separators}

(* The formula of the claim for one chunk, in units of 1/(10 n) where n   *)
(* is the number of question words                                        *)
ChunkScore(q, words, content) ==
  LET n == Cardinality(words)
      matched == {w \in words : Includes(content, Word(q, w))}
  IN  (IF Includes(content, q) THEN 4 * n ELSE 0)
      + 3 * Cardinality(matched)
      + (IF Len(content) > 200 THEN n ELSE 0)

RECURSIVE SumScores(_, _, _)
SumScores(q, words, docs) ==
  IF docs = <<>> THEN 0
  ELSE ChunkScore(q, words, ToLower(TextOf(Head(docs))))
       + SumScores(q, words, Tail(docs))

(* min(1, average of the chunk scores) with the question split at         *)
(* `separators`                                                           *)
FormulaConfidence(question, docs, separators) ==
  LET q == ToLower(TextOf(question))
      words == {w \in Tokens(q, separators) : w.to - w.from + 1 > 3}
      num == SumScores(q, words, docs)
      den == 10 * Cardinality(words) * Len(docs)
  IN  IF num > den THEN Frac(1, 1) ELSE Frac(num, den)

SameNumber(x, y) ==
  /\ ~x.nan
  /\ ~y.nan
  /\ x.num * y.den = y.num * x.den

HasLongWord(question, separators) ==
  \E w \in Tokens(ToLower(TextOf(question)), separators) :
     w.to - w.from + 1 > 3

(* C29: for a non-empty chunk list and a question with at least one word  *)
(* longer than 3 characters, the confidence is the formula's value with   *)
(* the question split at whitespace.                                      *)
C29_ConfidenceFormula ==
  (/\ pc = "done"
   /\ op = "score"
   /\ relevantDocs # <<>>
   /\ HasLongWord(arg, Whitespace)) =>
    SameNumber(result.confidence,
               FormulaConfidence(arg, relevantDocs, Whitespace))

----------------------------------------------------------------------------
(* Streaming on an empty corpus *)

(* C30: a streaming query on an initialized service whose collection      *)
(* holds no points calls no retrieval tier and no generation, and ends    *)
(* with an error.                                                         *)
C30_StreamEmptyCorpusFailsFast ==
  (/\ op = "stream"
   /\ pre.isInitialized
   /\ pre.vectorStore
   /\ pre.collection.exists
   /\ pre.collection.points = <<>>) =>
    /\ NoTierInvoked
    /\ NoGenerationInvoked
    /\ pc = "done" => result.kind \in {"error", "http400"}

----------------------------------------------------------------------------
(* Failed initialization *)

(* initializeCollection has just thrown because the health check or the   *)
(* embedding probe failed                                                 *)
ProbeFailed ==
  /\ InitializeCollectionThrew
  /\ ~Last(log).ok
  /\ Last(log).call \in {"clusterStatus", "embedProbe"}

(* C31: when initializeCollection throws because the health check or the  *)
(* embedding probe failed, the run has created and deleted nothing (the   *)
(* collection is the one it found), the vector store is unbound and       *)
(* isInitialized is false.                                                *)
C31_FailedProbeLeavesUninitialized ==
  ProbeFailed =>
    /\ collection = icPre
    /\ ~vectorStore
    /\ ~isInitialized

----------------------------------------------------------------------------
(* Lifecycle *)

(* C33: between operations, isInitialized is true only if the vector      *)
(* store is bound and the embedding width is cached.                      *)
C33_InitializedImpliesBound ==
  (pc \in {"idle", "done"} /\ sharedRAGService /\ isInitialized) =>
    /\ vectorStore
    /\ actualVectorSize # Null

----------------------------------------------------------------------------
(* Reconciliation of a healthy collection *)

(* The calls of the latest run of initializeCollection, which starts with *)
(* the health check                                                       *)
RunCalls ==
  {i \in 1..Len(log) :
     \A j \in (i + 1)..Len(log) : log[j].call # "clusterStatus"}

RunLoggedOk(name) == \E i \in RunCalls : log[i].call = name /\ log[i].ok
RunLogged(name) == \E i \in RunCalls : log[i].call = name

(* The run found the collection with the embedding width and read it,    *)
(* and the store did not fail its liveness query                          *)
FoundHealthy ==
  /\ icPre.exists
  /\ icPre.size = embedDim
  /\ RunLoggedOk("getCollection")
  /\ \A i \in RunCalls : log[i].call = "testQuery" => log[i].ok

----------------------------------------------------------------------------
(* Readiness *)

(* C34: when the statistics report isReady, the precondition of the batch *)
(* query holds: the retrieval chain is built and the vector store bound.  *)
C34_ReadyImpliesQueryable ==
  (Done("stats") /\ result.stats.isReady) =>
    /\ retrievalChain
    /\ vectorStore

----------------------------------------------------------------------------
(* Queries before any ingest *)

(* No ingest has succeeded on the service since its construction or last  *)
(* clear: the retrieval chain, built at the end of a successful           *)
(* processText, was unset when the request started                        *)
NothingIngested == ~pre.retrievalChain

RejectedAsUnprocessed ==
  /\ result.kind = "error"
  /\ Last(result.error) \in {MsgNoDocsProcessed, MsgNoDocsProcessedStream}

(* C35: with no successful ingest on the service, a batch query with a    *)
(* valid question ends with an error and calls no retrieval tier and no   *)
(* generation, whatever the collection holds; a streaming query in that   *)
(* state is not rejected as "no documents processed yet".                 *)
C35_QueryNeedsIngestStreamDoesNot ==
  (pc = "done" /\ op \in {"query", "stream"} /\ NothingIngested /\ arg # "") =>
    /\ op = "query" =>
         /\ result.kind = "error"
         /\ NoTierInvoked
         /\ NoGenerationInvoked
    /\ op = "stream" => ~RejectedAsUnprocessed

----------------------------------------------------------------------------
(* Failed clear *)

(* C36: a clear that fails because deleting the collection raised leaves  *)
(* the vector-store binding, the retrieval chain, the cached width and    *)
(* isInitialized as they were, keeps the shared service instance, and     *)
(* leaves the collection in place.                                        *)
C36_FailedClearChangesNothing ==
  (Done("clear") /\ result.kind = "http500") =>
    /\ LoggedFail("deleteCollection")
    /\ ServiceState = ServiceStateOf(pre)
    /\ sharedRAGService
    /\ pre.sharedRAGService
    /\ collection = pre.collection

C36_Witness ==
  /\ Done("clear")
  /\ result.kind = "http500"
  /\ vectorStore
  /\ retrievalChain
  /\ isInitialized
  /\ Held(collection) # <<>>

----------------------------------------------------------------------------
(* Failed ingest *)

FailedUpload == Done("upload") /\ result.kind = "upload" /\ ~result.success

(* C37 (as stated): when an upload returns success = false, the points of *)
(* the collection are the points it held before the call.                 *)
C37_FailedUploadKeepsPoints ==
  FailedUpload => Held(collection) = Held(pre.collection)

(* C37 (amended): when an upload returns success = false, no upsert of    *)
(* the upload returned, so no chunk of the document is stored; the points *)
(* are the ones held before the call, unless the reconciliation run by    *)
(* the upload deleted the collection, in which case it holds no points.   *)
C37_FailedUploadStoresNothing ==
  FailedUpload =>
    /\ ~LoggedOk("addDocuments")
    /\ \/ Held(collection) = Held(pre.collection)
       \/ /\ LoggedOk("deleteCollection")
          /\ Held(collection) = <<>>

C37_Witness ==
  /\ FailedUpload
  /\ LoggedFail("addDocuments")
  /\ Held(pre.collection) # <<>>
  /\ Held(collection) = Held(pre.collection)

----------------------------------------------------------------------------
(* Grounding *)

(* The documents in the context of the generation call that returned *)
GenerationContext ==
  log[CHOOSE i \in 1..Len(log) :
        log[i].call \in GenerationCalls /\ log[i].ok].ret

(* C38: in a batch result whose answer came from a generation call, the   *)
(* context of that call is the documents returned as sources, and         *)
(* chunksUsed is the number of sources.                                   *)
C38_AnswerGroundedInSources ==
  (/\ Done("query")
   /\ result.kind = "qa"
   /\ \E name \in GenerationCalls : LoggedOk(name)) =>
    /\ GenerationContext = result.sources
    /\ result.metadata.chunksUsed = Len(result.sources)

----------------------------------------------------------------------------
(* Collection name *)

(* C39: every store call of the deployment, from the shared service or    *)
(* from the diagnostic service, is given the same collection name.        *)
C39_SingleCollectionName ==
  \A i, j \in 1..Len(log) : log[i].ret = log[j].ret

----------------------------------------------------------------------------
(* Client reassembly *)

(* C40: when the stream handler has seen the done event, the answer it    *)
(* stored is the concatenation of the chunks the server sent, however the *)
(* bytes were divided into reads.                                         *)
C40_ClientReassembly ==
  (op = "handleStreamQuery" /\ result.returned) =>
    result.answer = Concat(arg)

====
